---- MODULE Spec2Model ----
(***************************************************************************)
(* TourRAG query-serving pipeline: LLM-synthesised SQL with its allow-list *)
(* and placeholder repair, the bounded tool-calling agent, the /query      *)
(* request mediator and the ranking/fusion layer.                          *)
(*                                                                         *)
(* Text is modelled as a sequence of one-character strings so that the     *)
(* string operations of the source (strip, upper, startswith, substring    *)
(* containment, count) are computed and not assumed.  Scores are rationals *)
(* in the source; here they are integers in units of 1/Scale.              *)
(***************************************************************************)
EXTENDS Integers, Sequences, FiniteSets, TLC

\* ------------------------------------------------------------------ bounds
\* longest LLM reply, in chunks of ReplyChunks
MaxChunks == 3
\* largest top_n / top_k a caller passes
MaxTopN == 2

\* scores are multiples of 1/Scale (divisible by 2, 3, 4, 5 and 10)
Scale == 6 * 10

\* ------------------------------------------------------------ text helpers
\* Python str values are strings; the i-th character of t is SubSeq(t, i, i).
Whitespace == {" ", "\n"}

LowerAlpha == <<"a","b","c","d","e","f","g","h","i","j","k","l","m",
                "n","o","p","q","r","s","t","u","v","w","x","y","z">>

UpperAlpha == <<"A","B","C","D","E","F","G","H","I","J","K","L","M",
                "N","O","P","Q","R","S","T","U","V","W","X","Y","Z">>

UpperChar(c) ==
    IF \E i \in 1..26 : LowerAlpha[i] = c
    THEN UpperAlpha[CHOOSE i \in 1..26 : LowerAlpha[i] = c]
    ELSE c

\* str.upper()
RECURSIVE Upper(_)
Upper(t) ==
    IF Len(t) <= 1 THEN UpperChar(t)
    ELSE Upper(SubSeq(t, 1, Len(t) \div 2)) \o
         Upper(SubSeq(t, Len(t) \div 2 + 1, Len(t)))

\* str.startswith(p)
StartsWith(t, p) == Len(p) <= Len(t) /\ SubSeq(t, 1, Len(p)) = p

\* "k in t" for strings
Contains(t, k) ==
    \E i \in 1..(Len(t) - Len(k) + 1) : SubSeq(t, i, i + Len(k) - 1) = k

RECURSIVE LStrip(_)
LStrip(t) == IF t = "" \/ Head(t) \notin Whitespace THEN t ELSE LStrip(Tail(t))

RECURSIVE RStrip(_)
RStrip(t) ==
    IF t = "" \/ SubSeq(t, Len(t), Len(t)) \notin Whitespace THEN t
    ELSE RStrip(SubSeq(t, 1, Len(t) - 1))

\* str.strip()
Strip(t) == LStrip(RStrip(t))

\* "".join(chunks)
RECURSIVE Concat(_)
Concat(chunks) ==
    IF chunks = <<>> THEN "" ELSE Head(chunks) \o Concat(Tail(chunks))

\* a markdown fence: three backquotes (each written "^", the lexer of this
\* language reserves the backquote itself)
Fence == "^^^"

\* re.sub of a leading fence followed by sql (any case) and whitespace
StripFenceSql(t) ==
    IF StartsWith(Upper(t), Fence \o "SQL")
    THEN LStrip(SubSeq(t, 7, Len(t)))
    ELSE t

\* re.sub of a leading fence and the whitespace after it
StripFenceOpen(t) ==
    IF StartsWith(t, Fence) THEN LStrip(SubSeq(t, 4, Len(t))) ELSE t

\* positions where a fence is followed by nothing but whitespace up to the end
FenceCloseAt(t) ==
    {i \in 1..(Len(t) - 2) :
        /\ SubSeq(t, i, i + 2) = Fence
        /\ \A j \in (i + 3)..Len(t) : SubSeq(t, j, j) \in Whitespace}

\* re.sub of a trailing fence (fence, whitespace, end): leftmost match removed
StripFenceClose(t) ==
    IF FenceCloseAt(t) = {} THEN t
    ELSE LET i == CHOOSE x \in FenceCloseAt(t) : \A y \in FenceCloseAt(t) : x <= y
         IN  SubSeq(t, 1, i - 1)

\* lines 310-316: strip, drop the fences, strip
StripMarkdown(content) ==
    Strip(StripFenceClose(StripFenceOpen(StripFenceSql(Strip(content)))))

\* sql.count of the two characters percent, s
CountPlaceholders(t) ==
    Cardinality({i \in 1..(Len(t) - 1) : SubSeq(t, i, i + 1) = "%s"})

\* the list with DROP forgotten
forbidden_keywords_NoDrop ==
    <<"INSERT", "UPDATE", "DELETE", "CREATE", "ALTER", "TRUNCATE", "EXEC",
      "EXECUTE">>

forbidden_keywords ==
    <<"INSERT", "UPDATE", "DELETE", "DROP", "CREATE", "ALTER", "TRUNCATE",
      "EXEC", "EXECUTE">>

\* lines 319-326: the allow-list; TRUE when the statement is accepted
PassesAllowList(sql) ==
    LET sql_upper == Strip(Upper(sql))
    IN  /\ StartsWith(sql_upper, "SELECT")
        /\ \A k \in 1..Len(forbidden_keywords) :
               ~Contains(sql_upper, forbidden_keywords[k])

\* lines 418-420: the second check, in _validate_and_execute_sql
PassesExecuteCheck(sql) == StartsWith(Strip(Upper(sql)), "SELECT")

\* ------------------------------------------------------------- Python bits
\* Python None
None == "<None>"

\* dict.get(k, default) on a record used as a dict
Get(d, k, default) == IF k \in DOMAIN d THEN d[k] ELSE default

\* list[:k], for negative k too
PySlice(s, k) ==
    IF k >= 0
    THEN SubSeq(s, 1, IF k < Len(s) THEN k ELSE Len(s))
    ELSE SubSeq(s, 1, IF Len(s) + k > 0 THEN Len(s) + k ELSE 0)

\* [x for x in s if Test(x)]
RECURSIVE Filter(_, _)
Filter(s, keep) ==
    IF s = <<>> THEN <<>>
    ELSE IF Head(s) \in keep THEN <<Head(s)>> \o Filter(Tail(s), keep)
    ELSE Filter(Tail(s), keep)

RECURSIVE FilterOut(_, _)
FilterOut(s, drop) ==
    IF s = <<>> THEN <<>>
    ELSE IF Head(s) \in drop THEN FilterOut(Tail(s), drop)
    ELSE <<Head(s)>> \o FilterOut(Tail(s), drop)

Range(s) == {s[i] : i \in 1..Len(s)}

\* list.sort(key=Key, reverse=True): stable, largest key first
SortDesc(s, Key(_)) ==
    LET n == Len(s)
        rank(i) == 1 + Cardinality({j \in 1..n :
                         \/ Key(s[j]) > Key(s[i])
                         \/ (Key(s[j]) = Key(s[i]) /\ j < i)})
    IN  [r \in 1..n |-> s[CHOOSE i \in 1..n : rank(i) = r]]

\* ------------------------------------------------------------ tag schema
\* config/tags/tag_schema_<version>.json as loaded by load_tag_schema: the
\* three tag families of the active version (a small vocabulary)
tag_schema ==
    [categories  |-> {"mountain", "temple"},
     visual_tags |-> {"snow_peak", "cherry_blossom"},
     scene_tags  |-> {"sunrise"}]

\* settings.TAG_SCHEMA_VERSION
TAG_SCHEMA_VERSION == "v1.0.0"
\* the version /query starts from and falls back to (main.py, lines 179, 201)
HandlerSchemaVersion == "v1.0.0"

\* the list the retrieval layer hard-codes (sql_search_tool.py, six copies)
valid_categories ==
    {"mountain", "lake", "temple", "museum", "park", "coast", "cityscape",
     "monument", "bridge", "palace", "tower", "cave", "waterfall", "valley",
     "island"}

Seasons == {"spring", "summer", "autumn", "winter", "unknown"}

\* ------------------------------------------------------- country aliases
\* the Chinese keys of COUNTRY_NAME_MAPPING, written zh:<English name>; each
\* maps to one English name (a str)
ChineseCountryKeys ==
    {"zh:China", "zh:United States", "zh:United Kingdom", "zh:France",
     "zh:Germany", "zh:Italy", "zh:Spain", "zh:Japan", "zh:South Korea",
     "zh:India", "zh:Brazil", "zh:Australia", "zh:Canada", "zh:Mexico",
     "zh:Russia"}

\* the English keys of COUNTRY_NAME_MAPPING; each maps to a list of variants
EnglishCountryKeys ==
    {"China", "United States", "United Kingdom", "France", "Italy", "Japan"}

COUNTRY_NAME_MAPPING ==
    [c \in ChineseCountryKeys \cup EnglishCountryKeys |->
        CASE c = "China" -> <<"China", "People's Republic of China", "PRC">>
          [] c = "United States" ->
                <<"United States", "USA", "US", "United States of America">>
          [] c = "United Kingdom" ->
                <<"United Kingdom", "UK", "Britain", "Great Britain">>
          [] c = "France" -> <<"France">>
          [] c = "Italy" -> <<"Italy">>
          [] c = "Japan" -> <<"Japan">>
          [] OTHER -> SubSeq(c, 4, Len(c))]

\* normalize_country_name(country) for a str or None; the second lookup of
\* the source (lines 68-73) is unreachable and has no counterpart here
normalize_country_name(country) ==
    IF country = None \/ country = "" THEN <<>>
    ELSE LET c == Strip(country)
         IN  IF c \in DOMAIN COUNTRY_NAME_MAPPING
             THEN LET base_name == COUNTRY_NAME_MAPPING[c]
                  IN  IF c \in EnglishCountryKeys
                      THEN base_name
                      ELSE <<base_name>> \o
                           Get(COUNTRY_NAME_MAPPING, base_name, <<>>)
             ELSE <<c>>

\* ---------------------------------------------------------------- corpus
\* The relational store.  The rows below are the universe; the variable
\* corpus holds the viewpoint ids present (rows of the other tables cascade).
VARIABLE corpus

\* viewpoint_entity; popularity in units of 1/Scale
viewpoint_entity ==
    << [viewpoint_id |-> 1, name_primary |-> "Fuji",
        name_variants |-> "{ja: Fujisan}", category_norm |-> "mountain",
        popularity |-> 54],
       [viewpoint_id |-> 2, name_primary |-> "Toji",
        name_variants |-> "{alt: Fujidera}", category_norm |-> "temple",
        popularity |-> 30],
       [viewpoint_id |-> 3, name_primary |-> "Louvre",
        name_variants |-> "{}", category_norm |-> None,
        popularity |-> 48] >>

\* viewpoint_commons_assets (N:1); viewpoint 1 has two assets
viewpoint_commons_assets ==
    << [viewpoint_id |-> 1, viewpoint_country |-> "Japan"],
       [viewpoint_id |-> 1, viewpoint_country |-> "Japan"],
       [viewpoint_id |-> 2, viewpoint_country |-> None],
       [viewpoint_id |-> 3, viewpoint_country |-> "France"] >>

\* viewpoint_visual_tags (N:1); confidence in units of 1/Scale
viewpoint_visual_tags ==
    << [viewpoint_id |-> 1, season |-> "winter", tags |-> <<"snow_peak">>,
        confidence |-> 48, tag_source |-> "wiki_weak_supervision"],
       [viewpoint_id |-> 1, season |-> "unknown", tags |-> <<"sunrise">>,
        confidence |-> 30, tag_source |-> "wiki_weak_supervision"],
       [viewpoint_id |-> 2, season |-> "spring",
        tags |-> <<"cherry_blossom", "temple">>,
        confidence |-> 60, tag_source |-> "gpt_4o_mini_image_history"] >>

ViewpointIds == {viewpoint_entity[i].viewpoint_id : i \in 1..Len(viewpoint_entity)}

\* the rows of a table that belong to viewpoints present in the corpus
Present(table) == SelectSeq(table, LAMBDA r : r.viewpoint_id \in corpus)

\* text ILIKE '%pattern%' for a pattern without wildcards; NULL never matches
ILike(text, pattern) ==
    text # None /\ Contains(Upper(text), Upper(pattern))

\* " OR ".join(parts) and friends
RECURSIVE Join(_, _)
Join(sep, parts) ==
    IF parts = <<>> THEN ""
    ELSE IF Len(parts) = 1 THEN parts[1]
    ELSE parts[1] \o sep \o Join(sep, Tail(parts))

\* LIMIT n applied to a row sequence (n >= 0)
Limit(rows, n) == SubSeq(rows, 1, IF n < Len(rows) THEN n ELSE Len(rows))

\* ViewpointCandidate(...).model_dump() for a result row
Candidate(row) ==
    [viewpoint_id |-> row.viewpoint_id, name_primary |-> row.name_primary,
     category_norm |-> row.category_norm, name_score |-> row.name_score,
     geo_score |-> row.geo_score, category_score |-> row.category_score,
     popularity |-> row.popularity]

Candidates(rows) == [i \in 1..Len(rows) |-> Candidate(rows[i])]

\* str(n) for the integers bound as parameters
Digits == <<"0","1","2","3","4","5","6","7","8","9">>

RECURSIVE Str(_)
Str(n) == IF n < 10 THEN Digits[n + 1] ELSE Str(n \div 10) \o Digits[(n % 10) + 1]

\* f"%{x}%"
Like(x) == "%" \o x \o "%"

\* json.dumps([tag])
JsonList(tag) == "[\"" \o tag \o "\"]"

\* one statement handed to cursor.execute
Stmt(sql, params) == [sql |-> sql, params |-> params]

\* ---------------------------------------------------- retrieval primitives
\* Each primitive yields [raised |-> whether it raised, result |-> its
\* envelope, executed |-> the statements it sent to the database, in order].

\* cursor.execute(sql, params) binds a list client-side: "%%" is a literal
\* percent, "%s" takes the next parameter, any other use of "%" is refused.
\* The number of parameters the statement takes, or -1 when it is refused.
\* A percent sign opens a format when an even number of percent signs
\* directly precedes it (the driver reads the text left to right).
OpensFormat(t, i) ==
    /\ SubSeq(t, i, i) = "%"
    /\ LET run == {j \in 1..i : \A k \in j..i : SubSeq(t, k, k) = "%"}
           first == CHOOSE j \in run : \A k \in run : j <= k
       IN  (i - first) % 2 = 0

DriverPlaceholders(t) ==
    LET opens == {i \in 1..Len(t) : OpensFormat(t, i)}
    IN  IF \E i \in opens : i = Len(t) \/ SubSeq(t, i + 1, i + 1) \notin {"%", "s"}
        THEN -1
        ELSE Cardinality({i \in opens : SubSeq(t, i + 1, i + 1) = "s"})

\* TRUE when cursor.execute sends the statement: every placeholder takes one
\* parameter and no parameter is left over; otherwise it raises before sending
DriverBinds(sql, params) == DriverPlaceholders(sql) = Len(params)

\* the statement that also counts the lookup
sql_search_by_name_Counting ==
    "\nUPDATE viewpoint_entity SET popularity = popularity + 1 " \o
    "WHERE name_primary ILIKE %s OR name_primary ILIKE %s OR name_variants::text ILIKE %s " \o
    "RETURNING viewpoint_id, name_primary, name_variants, category_norm, popularity LIMIT %s\n"

sql_search_by_name ==
    "\nSELECT viewpoint_id, name_primary, name_variants, category_norm, popularity, " \o
    "CASE WHEN name_primary ILIKE %s THEN 1.0 ELSE 0.5 END as name_score, " \o
    "1.0 as geo_score, " \o
    "CASE WHEN category_norm IS NOT NULL THEN 1.0 ELSE 0.0 END as category_score " \o
    "FROM viewpoint_entity " \o
    "WHERE name_primary ILIKE %s OR name_variants::text ILIKE %s " \o
    "ORDER BY name_score DESC, popularity DESC NULLS LAST LIMIT %s\n"

\* SQLSearchTool.search_by_name
search_by_name(name_pattern, top_n) ==
    LET pattern == Like(name_pattern)
        params  == <<pattern, pattern, pattern, Str(top_n)>>
        hits    == SelectSeq(Present(viewpoint_entity), LAMBDA e :
                       \/ ILike(e.name_primary, name_pattern)
                       \/ ILike(e.name_variants, name_pattern))
        scored  == [i \in 1..Len(hits) |->
                       [viewpoint_id |-> hits[i].viewpoint_id,
                        name_primary |-> hits[i].name_primary,
                        category_norm |-> hits[i].category_norm,
                        popularity |-> hits[i].popularity,
                        name_score |-> IF ILike(hits[i].name_primary, name_pattern)
                                       THEN Scale ELSE Scale \div 2,
                        geo_score |-> Scale,
                        category_score |-> IF hits[i].category_norm # None
                                           THEN Scale ELSE 0]]
        rows    == Limit(SortDesc(scored,
                       LAMBDA r : r.name_score * (Scale + 1) + r.popularity), top_n)
        base    == [candidates |-> Candidates(rows), count |-> Len(rows),
                    sql |-> sql_search_by_name, params |-> params]
    IN  [raised |-> FALSE,
         result |->
            IF Len(rows) = 0
            THEN base @@ [warning |-> "No viewpoints found matching the pattern",
                          suggestion |-> "Try searching with a different name"]
            ELSE base,
         executed |-> <<Stmt(sql_search_by_name, params)>>]

\* the f-string of the country-filtered category query
sql_category_country(country_filter) ==
    "\nSELECT e.viewpoint_id, e.name_primary, e.name_variants, e.category_norm, e.popularity, " \o
    "0.0 as name_score, " \o
    "CASE WHEN (" \o country_filter \o ") THEN 1.0 ELSE 0.0 END as geo_score, " \o
    "CASE WHEN e.category_norm = %s THEN 1.0 ELSE 0.0 END as category_score " \o
    "FROM viewpoint_entity e " \o
    "INNER JOIN viewpoint_commons_assets vca ON e.viewpoint_id = vca.viewpoint_id " \o
    "WHERE e.category_norm = %s AND vca.viewpoint_country IS NOT NULL AND (" \o
    country_filter \o ") " \o
    "ORDER BY geo_score DESC, e.popularity DESC NULLS LAST LIMIT %s\n"

\* sql_fallback of the country branch (geo_score 0.5)
sql_category_fallback ==
    "\nSELECT viewpoint_id, name_primary, name_variants, category_norm, popularity, " \o
    "0.0 as name_score, 0.5 as geo_score, " \o
    "CASE WHEN category_norm = %s THEN 1.0 ELSE 0.0 END as category_score " \o
    "FROM viewpoint_entity WHERE category_norm = %s " \o
    "ORDER BY popularity DESC NULLS LAST LIMIT %s\n"

\* the statement of the branch without a country (geo_score 1.0)
sql_category_plain ==
    "\nSELECT viewpoint_id, name_primary, name_variants, category_norm, popularity, " \o
    "0.0 as name_score, 1.0 as geo_score, " \o
    "CASE WHEN category_norm = %s THEN 1.0 ELSE 0.0 END as category_score " \o
    "FROM viewpoint_entity WHERE category_norm = %s " \o
    "ORDER BY popularity DESC NULLS LAST LIMIT %s\n"

\* count_sql, lines 813-820
sql_category_count(country_filter) ==
    "\nSELECT COUNT(DISTINCT e.viewpoint_id) as count FROM viewpoint_entity e " \o
    "INNER JOIN viewpoint_commons_assets vca ON e.viewpoint_id = vca.viewpoint_id " \o
    "WHERE e.category_norm = %s AND vca.viewpoint_country IS NOT NULL AND (" \o
    country_filter \o ")\n"

\* rows of viewpoint_entity of one category, most popular first
CategoryRows(category, geo) ==
    LET hits == SelectSeq(Present(viewpoint_entity),
                          LAMBDA e : e.category_norm = category)
    IN  SortDesc([i \in 1..Len(hits) |->
                     [viewpoint_id |-> hits[i].viewpoint_id,
                      name_primary |-> hits[i].name_primary,
                      category_norm |-> hits[i].category_norm,
                      popularity |-> hits[i].popularity,
                      name_score |-> 0, geo_score |-> geo,
                      category_score |-> Scale]],
                 LAMBDA r : r.popularity)

\* rows of the INNER JOIN with the country filter: one row per matching asset
CountryJoinRows(category, country_variants) ==
    LET assets == SelectSeq(Present(viewpoint_commons_assets), LAMBDA a :
                      /\ a.viewpoint_country # None
                      /\ \E v \in 1..Len(country_variants) :
                             ILike(a.viewpoint_country, country_variants[v]))
        entity(id) == CHOOSE e \in Range(viewpoint_entity) : e.viewpoint_id = id
        joined == SelectSeq(assets, LAMBDA a :
                      entity(a.viewpoint_id).category_norm = category)
    IN  SortDesc([i \in 1..Len(joined) |->
                     LET e == entity(joined[i].viewpoint_id)
                     IN  [viewpoint_id |-> e.viewpoint_id,
                          name_primary |-> e.name_primary,
                          category_norm |-> e.category_norm,
                          popularity |-> e.popularity,
                          name_score |-> 0, geo_score |-> Scale,
                          category_score |-> Scale]],
                 LAMBDA r : r.geo_score * (Scale + 1) + r.popularity)

\* the warning attached only when the unfiltered query found something
CountryWarning_OnlyWhenShown(country_match_count, found) ==
    IF country_match_count = 0 /\ found > 0
    THEN [warning |-> "No viewpoints of the category found in the country with country information. Showing all of the category",
          suggestion |-> "ensure country information is populated"]
    ELSE <<>>

\* lines 825-830: the keys added to the envelope of a search with a country
CountryWarning(country_match_count, found) ==
    IF country_match_count = 0 /\ found > 0
    THEN [warning |-> "No viewpoints of the category found in the country with country information. Showing all of the category",
          suggestion |-> "ensure country information is populated"]
    ELSE IF country_match_count = 0 /\ found = 0
    THEN [warning |-> "No viewpoints of the category found in the database.",
          suggestion |-> "The database may not contain this category"]
    ELSE <<>>

\* SQLSearchTool.search_by_category(category, country, top_n); country is a
\* str or None
search_by_category(category, country, top_n) ==
    IF country # None /\ country # ""
    THEN LET country_variants == normalize_country_name(country)
             country_conditions == [i \in 1..Len(country_variants) |->
                                       "vca.viewpoint_country ILIKE %s"]
             country_params == [i \in 1..Len(country_variants) |->
                                   Like(country_variants[i])]
             country_filter == IF country_conditions # <<>>
                               THEN Join(" OR ", country_conditions) ELSE "1=0"
             sql1    == sql_category_country(country_filter)
             params1 == country_params \o <<category, category>> \o
                        country_params \o <<Str(top_n)>>
             rows1   == Limit(CountryJoinRows(category, country_variants), top_n)
             params_fallback == <<category, category, Str(top_n)>>
             rows    == IF Len(rows1) = 0
                        THEN Limit(CategoryRows(category, Scale \div 2), top_n)
                        ELSE rows1
             sql     == IF Len(rows1) = 0 THEN sql_category_fallback ELSE sql1
             params  == IF Len(rows1) = 0 THEN params_fallback ELSE params1
             count_stmt == Stmt(sql_category_count(country_filter),
                                <<category>> \o country_params)
             country_match_count ==
                 Cardinality({r.viewpoint_id :
                     r \in Range(CountryJoinRows(category, country_variants))})
             base    == [candidates |-> Candidates(rows), count |-> Len(rows),
                         sql |-> sql, params |-> params]
         IN  [raised |-> FALSE,
              result |->
                 base @@ CountryWarning(country_match_count, Len(rows)),
              executed |->
                 <<Stmt(sql1, params1)>> \o
                 (IF Len(rows1) = 0
                  THEN <<Stmt(sql_category_fallback, params_fallback)>> ELSE <<>>) \o
                 <<count_stmt>>]
    ELSE LET params == <<category, category, Str(top_n)>>
             rows   == Limit(CategoryRows(category, Scale), top_n)
         IN  [raised |-> FALSE,
              result |-> [candidates |-> Candidates(rows), count |-> Len(rows),
                          sql |-> sql_category_plain, params |-> params],
              executed |-> <<Stmt(sql_category_plain, params)>>]

\* visual_to_category of search_by_tags
visual_to_category == [t \in {"snow_peak", "waterfall"} |->
                          IF t = "snow_peak" THEN "mountain" ELSE "waterfall"]

\* "%s,%s,...": ','.join(['%s'] * n)
Placeholders(n) == Join(",", [i \in 1..n |-> "%s"])

\* the f-string of search_by_tags
sql_search_by_tags(category_score_sql, where_clause) ==
    "\nSELECT DISTINCT e.viewpoint_id, e.name_primary, e.name_variants, e.category_norm, e.popularity, " \o
    "0.0 as name_score, 1.0 as geo_score, " \o category_score_sql \o
    " as category_score FROM viewpoint_entity e WHERE " \o where_clause \o
    " ORDER BY e.popularity DESC NULLS LAST LIMIT %s\n"

\* tags @> '[tag]'::jsonb
TagsContain(vt, tag) == tag \in Range(vt.tags)

\* WHERE c1 OR ... OR cn AND season = s: AND binds tighter than OR, so the
\* season restricts the last tag condition only
TagRowMatches(vt, tags, season) ==
    IF season # None /\ season # "" /\ season # "unknown"
    THEN \/ \E i \in 1..(Len(tags) - 1) : TagsContain(vt, tags[i])
         \/ (TagsContain(vt, tags[Len(tags)]) /\ vt.season = season)
    ELSE \E i \in 1..Len(tags) : TagsContain(vt, tags[i])

\* the statement search_by_tags builds for a number of mapped categories, a
\* number of tags and a season filter or none
TagsStatement(n_categories, n_tags, has_season) ==
    LET tag_conditions == [i \in 1..n_tags |-> "tags @> %s::jsonb"]
        cat_condition == IF n_categories > 0
                         THEN <<"category_norm IN (" \o
                                Placeholders(n_categories) \o ")">>
                         ELSE <<>>
        tag_condition == IF n_tags > 0
                         THEN <<"viewpoint_id IN ( SELECT DISTINCT viewpoint_id " \o
                                "FROM viewpoint_visual_tags WHERE " \o
                                Join(" OR ", tag_conditions) \o " " \o
                                (IF has_season THEN "AND season = %s" ELSE "") \o
                                " )">>
                         ELSE <<>>
        conditions == cat_condition \o tag_condition
        where_clause == IF conditions # <<>> THEN Join(" AND ", conditions)
                        ELSE "1=1"
        category_score_sql ==
            IF n_categories > 0
            THEN "CASE WHEN e.category_norm IN (" \o
                 Placeholders(n_categories) \o ") THEN 1.0 ELSE 0.0 END"
            ELSE "0.0"
    IN  sql_search_by_tags(category_score_sql, where_clause)

\* SQLSearchTool.search_by_tags(tags, season, top_n)
search_by_tags(tags, season, top_n) ==
    LET in_map == Filter(tags, DOMAIN visual_to_category)
        category_list == [i \in 1..Len(in_map) |-> visual_to_category[in_map[i]]]
        has_season == season # None /\ season # "" /\ season # "unknown"
        tag_params == [i \in 1..Len(tags) |-> JsonList(tags[i])] \o
                      (IF has_season THEN <<season>> ELSE <<>>)
        sql == TagsStatement(Len(category_list), Len(tags), has_season)
        params == category_list \o
                  (IF tags # <<>> THEN tag_params ELSE <<>>) \o <<Str(top_n)>>
        tagged == {vt.viewpoint_id : vt \in
                      {r \in Range(Present(viewpoint_visual_tags)) :
                           TagRowMatches(r, tags, season)}}
        hits == SelectSeq(Present(viewpoint_entity), LAMBDA e :
                    /\ (category_list = <<>> \/ e.category_norm \in Range(category_list))
                    /\ (tags = <<>> \/ e.viewpoint_id \in tagged))
        rows == Limit(SortDesc([i \in 1..Len(hits) |->
                         [viewpoint_id |-> hits[i].viewpoint_id,
                          name_primary |-> hits[i].name_primary,
                          category_norm |-> hits[i].category_norm,
                          popularity |-> hits[i].popularity,
                          name_score |-> 0, geo_score |-> Scale,
                          category_score |->
                              IF /\ category_list # <<>>
                                 /\ hits[i].category_norm \in Range(category_list)
                              THEN Scale ELSE 0]],
                      LAMBDA r : r.popularity), top_n)
    IN  IF DriverBinds(sql, params)
        THEN [raised |-> FALSE,
              result |-> [candidates |-> Candidates(rows), count |-> Len(rows),
                          sql |-> sql, params |-> params],
              executed |-> <<Stmt(sql, params)>>,
              attempted |-> <<Stmt(sql, params)>>]
        ELSE [raised |-> TRUE, result |-> [error |-> "cursor.execute raised"],
              executed |-> <<>>,
              attempted |-> <<Stmt(sql, params)>>]

sql_search_popular ==
    "\nSELECT viewpoint_id, name_primary, name_variants, category_norm, popularity, " \o
    "0.0 as name_score, 1.0 as geo_score, 0.0 as category_score " \o
    "FROM viewpoint_entity WHERE popularity > 0 " \o
    "ORDER BY popularity DESC NULLS LAST LIMIT %s\n"

\* SQLSearchTool.search_popular(top_n)
search_popular(top_n) ==
    LET hits == SelectSeq(Present(viewpoint_entity), LAMBDA e : e.popularity > 0)
        rows == Limit(SortDesc([i \in 1..Len(hits) |->
                         [viewpoint_id |-> hits[i].viewpoint_id,
                          name_primary |-> hits[i].name_primary,
                          category_norm |-> hits[i].category_norm,
                          popularity |-> hits[i].popularity,
                          name_score |-> 0, geo_score |-> Scale,
                          category_score |-> 0]],
                      LAMBDA r : r.popularity), top_n)
        params == <<Str(top_n)>>
    IN  [raised |-> FALSE,
         result |-> [candidates |-> Candidates(rows), count |-> Len(rows),
                     sql |-> sql_search_popular, params |-> params],
         executed |-> <<Stmt(sql_search_popular, params)>>]

\* ------------------------------------------------------ ranking / fusion
\* QueryIntent(...)
QueryIntent(names, tags, season, scenes, country, notes) ==
    [name_candidates |-> names, query_tags |-> tags, season_hint |-> season,
     scene_hints |-> scenes,
     geo_hints |-> [place_name |-> None, country |-> country],
     confidence_notes |-> notes]

\* EnrichmentService.enrich_visual_tags(viewpoint_id, season_hint)
enrich_visual_tags(viewpoint_id, season_hint) ==
    LET mine == SelectSeq(Present(viewpoint_visual_tags),
                          LAMBDA r : r.viewpoint_id = viewpoint_id)
    IN  IF season_hint # None /\ season_hint # "" /\ season_hint # "unknown"
        THEN SortDesc(SelectSeq(mine, LAMBDA r :
                          r.season = season_hint \/ r.season = "unknown"),
                      LAMBDA r : (IF r.season = season_hint THEN Scale + 1 ELSE 0)
                                 + r.confidence)
        ELSE SortDesc(mine, LAMBDA r : r.confidence)

\* the weights of lines 94-97, in tenths
W_NAME == 4
W_CATEGORY == 2
W_TAGS == 3
W_SEASON == 1

\* match_confidence 1.0, in units of 1/(10 * Scale)
FullConfidence == (W_NAME + W_CATEGORY + W_TAGS + W_SEASON) * Scale

Max(S) == CHOOSE x \in S : \A y \in S : y <= x

\* lines 76-83
tag_overlap_score(visual_tags_data, query_intent) ==
    LET candidate_tags == UNION {Range(visual_tags_data[i].tags) :
                                    i \in 1..Len(visual_tags_data)}
        query_tags_set == Range(query_intent.query_tags)
    IN  IF query_tags_set # {}
        THEN (Cardinality(candidate_tags \cap query_tags_set) * Scale)
                 \div Cardinality(query_tags_set)
        ELSE 0

\* lines 86-90
season_match_bonus(visual_tags_data, query_intent) ==
    IF query_intent.season_hint # "unknown"
    THEN Max({0} \cup {visual_tags_data[i].confidence :
                 i \in {j \in 1..Len(visual_tags_data) :
                           visual_tags_data[j].season = query_intent.season_hint}})
    ELSE 0

\* lines 93-98, in units of 1/(10 * Scale)
match_confidence(candidate, tag_score, season_bonus) ==
    candidate.name_score * W_NAME + candidate.category_score * W_CATEGORY +
    tag_score * W_TAGS + season_bonus * W_SEASON

\* LLMService._generate_match_explanation: the fragments, in order
generate_match_explanation(candidate, query_intent, tag_score, season_bonus) ==
    (IF 10 * candidate.name_score > 7 * Scale THEN <<"Name matches">> ELSE <<>>) \o
    (IF candidate.category_score > 0 THEN <<"Category">> ELSE <<>>) \o
    (IF /\ tag_score > 0
        /\ candidate.category_norm # None
        /\ candidate.category_norm \in Range(query_intent.query_tags)
     THEN <<"Visual tags match">> ELSE <<>>) \o
    (IF 2 * season_bonus > Scale THEN <<"Strong season match">> ELSE <<>>) \o
    (IF 10 * candidate.popularity > 7 * Scale
     THEN <<"Highly popular destination">> ELSE <<>>)

\* the ViewpointResult built for one candidate, lines 64-141
FuseOne(candidate, query_intent) ==
    LET visual_tags_data == enrich_visual_tags(candidate.viewpoint_id,
                                               query_intent.season_hint)
        tag_score    == tag_overlap_score(visual_tags_data, query_intent)
        season_bonus == season_match_bonus(visual_tags_data, query_intent)
    IN  [viewpoint_id |-> candidate.viewpoint_id,
         name_primary |-> candidate.name_primary,
         category_norm |-> candidate.category_norm,
         match_confidence |-> match_confidence(candidate, tag_score, season_bonus),
         match_explanation |->
             generate_match_explanation(candidate, query_intent, tag_score,
                                        season_bonus)]

\* the ranking that looks at every candidate
TopCandidates_All(candidates, top_k) == candidates

\* line 63: candidates[:top_k * 2]
TopCandidates(candidates, top_k) == PySlice(candidates, top_k * 2)

\* the ranking whose sort puts equal confidences in reverse input order
rank_and_fuse_TiesReversed(candidates, query_intent, top_k) ==
    LET top     == PySlice(candidates, top_k * 2)
        results == [i \in 1..Len(top) |->
                       FuseOne(top[Len(top) + 1 - i], query_intent)]
    IN  PySlice(SortDesc(results, LAMBDA r : r.match_confidence), top_k)

\* LLMService.rank_and_fuse(candidates, query_intent, top_k)
rank_and_fuse(candidates, query_intent, top_k) ==
    LET top     == TopCandidates(candidates, top_k)
        results == [i \in 1..Len(top) |-> FuseOne(top[i], query_intent)]
    IN  PySlice(SortDesc(results, LAMBDA r : r.match_confidence), top_k)

\* ------------------------------------------------------- fallback cascade
\* a stage that does not apply: nothing run, nothing found
Skip == [raised |-> FALSE, result |-> [count |-> 0], executed |-> <<>>]

\* the cascade that runs every stage and lets the last non-empty one win
OrElse_KeepsGoing(a, b) ==
    IF a.raised THEN a
    ELSE IF b.raised \/ b.result.count > 0 \/ a.result.count = 0
    THEN [b EXCEPT !.executed = a.executed \o @]
    ELSE [a EXCEPT !.executed = @ \o b.executed]

\* run b only when a neither raised nor found a candidate
OrElse(a, b) ==
    IF a.raised \/ a.result.count > 0 THEN a
    ELSE [b EXCEPT !.executed = a.executed \o @]

\* Priority 4, lines 592-600: partial-name search per candidate
RECURSIVE PartialNameStage(_, _)
PartialNameStage(names, top_n) ==
    IF names = <<>> THEN Skip
    ELSE LET name == Head(names)
             partial_name == IF Len(name) > 4
                             THEN SubSeq(name, 1, Len(name) \div 2) ELSE name
         IN  IF Len(name) > 2
             THEN OrElse(search_by_name(partial_name, top_n),
                         PartialNameStage(Tail(names), top_n))
             ELSE PartialNameStage(Tail(names), top_n)

\* SQLSearchTool._fallback_search(query_intent, top_n)
fallback_search(query_intent, top_n) ==
    LET names == query_intent.name_candidates
        tags  == query_intent.query_tags
        categories  == Filter(tags, valid_categories)
        visual_tags == FilterOut(tags, valid_categories)
        country == query_intent.geo_hints.country
        season  == IF query_intent.season_hint # "unknown"
                   THEN query_intent.season_hint ELSE None
        by_name == IF names # <<>> THEN search_by_name(names[1], top_n) ELSE Skip
        by_category_country ==
            IF categories # <<>> /\ country # None /\ country # ""
            THEN search_by_category(categories[1], country, top_n) ELSE Skip
        by_category ==
            IF categories # <<>>
            THEN search_by_category(categories[1], None, top_n) ELSE Skip
        by_tags == IF visual_tags # <<>>
                   THEN search_by_tags(visual_tags, season, top_n) ELSE Skip
        last_resort ==
            [raised |-> FALSE,
             result |-> [candidates |-> <<>>, count |-> 0,
                         warning |-> "No viewpoints found matching the search criteria.",
                         suggestion |-> "Try searching with fewer criteria"],
             executed |-> <<>>]
    IN  OrElse(by_name,
        OrElse(by_category_country,
        OrElse(by_category,
        OrElse(by_tags,
        OrElse(PartialNameStage(names, top_n), last_resort)))))

\* ------------------------------------------------------------ variables
\* the statements the database has received, in order: [sql, params, by]
VARIABLE dbLog
\* number of chat-completion calls made to the LLM provider
VARIABLE llm_calls

\* search_with_llm_sql: position, arguments, what _generate_sql_with_llm
\* produced (status none / ok / rejected / failed), returned envelope
VARIABLES sqlpc, sql_in, generated, sql_result

\* AgentService.answer_query: position, budget, loop counter, tool calls of
\* the current message still to run, trace, what it returned
VARIABLES agpc, max_iterations, iteration, pending, tool_calls_log, agent_result
\* history of the agent run: model calls made, tool invocations the agent
\* made in order, size of the largest batch of tool calls in one message
VARIABLES model_calls, issued, largest_batch

\* /query: position, request, values of the handler's locals, response,
\* number of query_log writes attempted
VARIABLES qpc, request, locals, response, log_writes
\* the exception the query_log write ended with and the handler printed, or None
VARIABLE log_failure

\* a with-block on Database.get_connection / get_cursor: position, which of
\* the two, driver calls made on the connection in order, exception in flight
\* (None when there is none), whether the block body ran to its end, how the
\* with-statement was left, statements the body has run
VARIABLES wpc, with_kind, conn_calls, in_flight, body_completed, with_exit,
          executed_in_body

\* one call of a library operation: position, the operation with its arguments
\* and the rows it finds, what it returned
VARIABLES callpc, call_in, call_out

callVars  == <<callpc, call_in, call_out>>
connVars  == <<wpc, with_kind, conn_calls, in_flight, body_completed, with_exit,
               executed_in_body>>
libVars   == <<connVars, callVars>>
sqlVars   == <<sqlpc, sql_in, generated, sql_result>>
agentVars == <<agpc, max_iterations, iteration, pending, tool_calls_log,
               agent_result, model_calls, issued, largest_batch>>
queryVars == <<qpc, request, locals, response, log_writes, log_failure>>
vars == <<corpus, dbLog, llm_calls, libVars, sqlVars, agentVars, queryVars>>

\* a component that takes no part in a specification
ConnOff ==
    /\ wpc = "off" /\ with_kind = None /\ conn_calls = <<>> /\ in_flight = None
    /\ body_completed = FALSE /\ with_exit = None /\ executed_in_body = 0

CallOff ==
    callpc = "off" /\ call_in = [none |-> None] /\ call_out = [none |-> None]

SqlOff ==
    /\ sqlpc = "off" /\ sql_in = None /\ generated = [status |-> "none"]
    /\ sql_result = None

AgentOff ==
    /\ agpc = "off" /\ max_iterations = 0 /\ iteration = 0 /\ pending = <<>>
    /\ tool_calls_log = <<>> /\ agent_result = [none |-> None]
    /\ model_calls = 0 /\ issued = <<>> /\ largest_batch = 0

QueryOff ==
    /\ qpc = "off" /\ request = [none |-> None] /\ locals = [none |-> None]
    /\ response = [status |-> 0] /\ log_writes = 0 /\ log_failure = None

\* statements tagged with the code that sent them
Sent(stmts, by) ==
    [i \in 1..Len(stmts) |-> [sql |-> stmts[i].sql, params |-> stmts[i].params,
                              by |-> by]]

\* --------------------------------------------------- search_with_llm_sql
\* pieces the SQL generator's reply is made of
ReplyChunks ==
    {"^^^sql\n", "^^^", "select ", "drop ", "%s ", "%"}

RECURSIVE ChunkSeqs(_)
ChunkSeqs(n) ==
    IF n = 0 THEN {<<>>}
    ELSE ChunkSeqs(n - 1) \cup
         {Append(c, x) : c \in {d \in ChunkSeqs(n - 1) : Len(d) = n - 1},
                         x \in ReplyChunks}

\* message.content of the SQL generator: any text of at most MaxChunks chunks
LlmReplies == {Concat(c) : c \in ChunkSeqs(MaxChunks)}

\* the intents search_with_llm_sql is called with
SqlIntents ==
    {QueryIntent(<<>>, <<>>, "unknown", <<>>, None, <<>>),
     QueryIntent(<<"Louvres", "Xi">>, <<"temple">>, "spring", <<>>, "France", <<>>),
     QueryIntent(<<>>, <<"mountain", "snow_peak">>, "winter", <<"sunrise">>,
                 "zh:China", <<>>),
     QueryIntent(<<>>, <<"cherry_blossom">>, "spring", <<>>, None, <<>>),
     QueryIntent(<<"Nowhere">>, <<"lake">>, "unknown", <<>>, "zh:Japan", <<>>)}

\* the corpora the retrieval layer is run against
Corpora == {{2}, ViewpointIds}

\* lines 328-371: the parameter list, in the fixed order
IntentParams(query_intent, top_n) ==
    LET names  == query_intent.name_candidates
        tags   == query_intent.query_tags
        categories  == Filter(tags, valid_categories)
        visual_tags == FilterOut(tags, valid_categories)
        scenes == query_intent.scene_hints
        country == query_intent.geo_hints.country
        country_variants == IF country # None /\ country # ""
                            THEN normalize_country_name(country) ELSE <<>>
    IN  [i \in 1..Len(names) |-> Like(names[i])] \o
        categories \o
        [i \in 1..Len(visual_tags) |-> JsonList(visual_tags[i])] \o
        [i \in 1..Len(scenes) |-> Like(scenes[i])] \o
        [i \in 1..Len(country_variants) |-> Like(country_variants[i])] \o
        (IF query_intent.season_hint # "unknown"
         THEN <<query_intent.season_hint>> ELSE <<>>) \o
        <<Str(top_n)>>

\* the trim that keeps param_count items and then appends top_n
RepairParams_TrimOffByOne(params, param_count, top_n) ==
    IF Len(params) = param_count THEN params
    ELSE IF Len(params) < param_count
    THEN params \o [i \in 1..(param_count - Len(params)) |-> None]
    ELSE IF Len(params) > 0 /\ params[Len(params)] = Str(top_n) /\ param_count > 0
    THEN SubSeq(params, 1, param_count) \o <<Str(top_n)>>
    ELSE SubSeq(params, 1, param_count)

\* lines 373-398: pad with None or trim so that the list has param_count items
RepairParams(params, param_count, top_n) ==
    IF Len(params) = param_count THEN params
    ELSE IF Len(params) < param_count
    THEN params \o [i \in 1..(param_count - Len(params)) |-> None]
    ELSE IF Len(params) > 0 /\ params[Len(params)] = Str(top_n) /\ param_count > 0
    THEN SubSeq(params, 1, param_count - 1) \o <<Str(top_n)>>
    ELSE SubSeq(params, 1, param_count)

\* _generate_sql_with_llm on a reply: [ok, sql, params]; ok is FALSE when it
\* raises ValueError
generate_sql_with_llm(content, query_intent, top_n) ==
    LET sql == StripMarkdown(content)
    IN  IF ~PassesAllowList(sql)
        THEN [ok |-> FALSE, sql |-> sql, params |-> <<>>]
        ELSE [ok |-> TRUE, sql |-> sql,
              params |-> RepairParams(IntentParams(query_intent, top_n),
                                      CountPlaceholders(sql), top_n)]

SqlInit ==
    /\ sqlpc = "start"
    /\ sql_in \in [query_intent : SqlIntents, top_n : 1..MaxTopN]
    /\ generated = [status |-> "none"]
    /\ sql_result = None

\* lines 442-467: the LLM is asked for a statement; a refused statement or a
\* failed call lands in the except branch of search_with_llm_sql
GenerateSql ==
    /\ sqlpc = "start"
    /\ llm_calls' = llm_calls + 1
    /\ \E content \in LlmReplies :
          LET g == generate_sql_with_llm(content, sql_in.query_intent, sql_in.top_n)
          IN  IF g.ok
              THEN /\ generated' = [status |-> "ok", content |-> content,
                                     sql |-> g.sql, params |-> g.params]
                   /\ sqlpc' = "generated"
              ELSE /\ generated' = [status |-> "rejected", content |-> content,
                                     sql |-> g.sql]
                   /\ sqlpc' = "except"
    /\ UNCHANGED <<libVars, corpus, dbLog, sql_in, sql_result, agentVars, queryVars>>

\* the provider call itself fails (lines 402-404 re-raise)
GenerateSqlFails ==
    /\ sqlpc = "start"
    /\ llm_calls' = llm_calls + 1
    /\ generated' = [status |-> "failed"]
    /\ sqlpc' = "except"
    /\ UNCHANGED <<libVars, corpus, dbLog, sql_in, sql_result, agentVars, queryVars>>

\* rows an arbitrary accepted SELECT may return: the most popular viewpoints
\* present, any number of them
LlmRows(n) == Candidates(search_popular(n).result.candidates)

\* lines 470-532: _validate_and_execute_sql and the conversion of its rows
ExecuteSql ==
    /\ sqlpc = "generated"
    /\ IF ~PassesExecuteCheck(generated.sql) \/ ~DriverBinds(generated.sql, generated.params)
       THEN /\ sqlpc' = "except"
            /\ UNCHANGED <<dbLog, sql_result>>
       ELSE /\ dbLog' = dbLog \o Sent(<<generated>>, "llm")
            /\ \/ /\ sqlpc' = "except"           \* the server refuses it
                  /\ UNCHANGED sql_result
               \/ /\ sqlpc' = "no_rows"          \* zero rows
                  /\ UNCHANGED sql_result
               \/ \E n \in 1..Cardinality(corpus) :
                     /\ sqlpc' = "done"
                     /\ sql_result' =
                           [candidates |-> LlmRows(n), count |-> n,
                            sql |-> generated.sql, params |-> generated.params,
                            generated_by |-> "llm"]
    /\ UNCHANGED <<libVars, corpus, llm_calls, sql_in, generated, agentVars, queryVars>>

\* lines 534-539: the except branch returns _fallback_search unchanged
FallbackAfterException ==
    /\ sqlpc = "except"
    /\ \E fb \in {fallback_search(sql_in.query_intent, sql_in.top_n)} :
           /\ dbLog' = dbLog \o Sent(fb.executed, "fallback")
           /\ IF fb.raised
              THEN sqlpc' = "raised" /\ sql_result' = sql_result
              ELSE sqlpc' = "done" /\ sql_result' = fb.result
    /\ UNCHANGED <<libVars, corpus, llm_calls, sql_in, generated, agentVars, queryVars>>

\* lines 486-522: zero rows from the generated statement.  A raise inside
\* this branch is caught by the except branch, which runs the cascade again.
FallbackAfterNoRows ==
    /\ sqlpc = "no_rows"
    /\ \E fb \in {fallback_search(sql_in.query_intent, sql_in.top_n)} :
           IF fb.raised
           THEN /\ dbLog' = dbLog \o Sent(fb.executed, "fallback")
                                  \o Sent(fb.executed, "fallback")
                /\ sqlpc' = "raised" /\ sql_result' = sql_result
           ELSE /\ dbLog' = dbLog \o Sent(fb.executed, "fallback")
                /\ sqlpc' = "done"
                /\ sql_result' =
                      IF fb.result.count > 0
                      THEN [llm_sql_failed |-> TRUE, llm_sql |-> generated.sql,
                            llm_params |-> generated.params,
                            warning |-> "LLM-generated SQL query returned no results. Using fallback search method with relaxed criteria. "
                                        \o Get(fb.result, "warning", ""),
                            suggestion |-> Get(fb.result, "suggestion",
                                "The search used relaxed criteria to find results.")]
                           @@ fb.result
                      ELSE [candidates |-> <<>>, count |-> 0,
                            sql |-> generated.sql, params |-> generated.params,
                            generated_by |-> "llm",
                            warning |-> "No viewpoints found matching the query.",
                            suggestion |-> "Try searching with fewer or different criteria"]
    /\ UNCHANGED <<libVars, corpus, llm_calls, sql_in, generated, agentVars, queryVars>>

NextSql ==
    \/ GenerateSql
    \/ GenerateSqlFails
    \/ ExecuteSql
    \/ FallbackAfterException
    \/ FallbackAfterNoRows

InitSql ==
    /\ ConnOff /\ CallOff
    /\ corpus \in Corpora
    /\ dbLog = <<>>
    /\ llm_calls = 0
    /\ SqlInit
    /\ AgentOff
    /\ QueryOff

SpecSql == InitSql /\ [][NextSql]_vars

\* ------------------------------------------------------ intent extractor
\* valid_tags of lines 177-181
valid_tags ==
    tag_schema.categories \cup tag_schema.visual_tags \cup tag_schema.scene_tags

\* the filter that keeps every tag the LLM emitted
validated_tags_Unfiltered(query_tags) == query_tags

\* line 184: [tag for tag in query_tags if tag in valid_tags]
validated_tags(query_tags) == Filter(query_tags, valid_tags)

\* JSON objects the vision LLM may answer with (json.loads of its content)
ExtractReplies ==
    { [query_intent |->
          [name_candidates |-> <<"Fuji">>,
           query_tags |-> <<"mountain", "not_a_tag">>,
           season_hint |-> "winter",
           geo_hints |-> [country |-> "zh:Japan"]],
       tag_schema_version |-> "v0.9.0"],
      [query_intent |->
          [query_tags |-> <<"cherry_blossom">>, season_hint |-> "spring",
           scene_hints |-> <<"sunrise">>,
           confidence_notes |-> <<"season inferred">>]],
      [query_intent |-> [name_candidates |-> <<"Nowhere">>]],
      [note |-> "no query_intent key"] }

\* lines 111-127: the default intent for an empty input
\* the default intent without its note
EmptyInputOutput_NoNote ==
    [query_intent |-> QueryIntent(<<>>, <<>>, "unknown", <<>>, None, <<>>),
     tag_schema_version |-> TAG_SCHEMA_VERSION]

EmptyInputOutput ==
    [query_intent |-> QueryIntent(<<>>, <<>>, "unknown", <<>>, None,
                                  <<"No user input provided">>),
     tag_schema_version |-> TAG_SCHEMA_VERSION]

\* lines 169-209: the output built from the parsed reply
ExtractOutput(result_json) ==
    LET query_intent_dict == Get(result_json, "query_intent", [none |-> None])
        query_tags == Get(query_intent_dict, "query_tags", <<>>)
        kept  == validated_tags(query_tags)
        notes == Get(query_intent_dict, "confidence_notes", <<>>) \o
                 (IF Len(kept) < Len(query_tags)
                  THEN <<"Some tags were filtered out as they were not in the controlled vocabulary">>
                  ELSE <<>>)
        geo   == Get(query_intent_dict, "geo_hints", [none |-> None])
    IN  [query_intent |->
            [name_candidates |-> Get(query_intent_dict, "name_candidates", <<>>),
             query_tags |-> kept,
             season_hint |-> Get(query_intent_dict, "season_hint", "unknown"),
             scene_hints |-> Get(query_intent_dict, "scene_hints", <<>>),
             geo_hints |-> [place_name |-> Get(geo, "place_name", None),
                            country |-> Get(geo, "country", None)],
             confidence_notes |-> notes],
         tag_schema_version |->
             Get(result_json, "tag_schema_version", TAG_SCHEMA_VERSION)]

\* bool(x) for a str or None
Truthy(x) == x # None /\ x # ""

\* ExtractQueryIntentTool.extract(input_data) given the LLM's answer; reply
\* is a member of ExtractReplies or ExtractFailure (the call or the parse raised).
\* llm is the number of LLM calls made.
extract(user_text, has_images, reply) ==
    IF ~Truthy(user_text) /\ ~has_images
    THEN [raised |-> FALSE, result |-> EmptyInputOutput, llm |-> 0]
    ELSE IF "error" \in DOMAIN reply
    THEN [raised |-> TRUE, result |-> [error |-> "extract raised"], llm |-> 1]
    ELSE [raised |-> FALSE, result |-> ExtractOutput(reply), llm |-> 1]

\* ------------------------------------------------------------ the agent
\* bound on the budgets a caller of answer_query passes explicitly
MaxIter == 2
\* bound on the tool calls of one model message
MaxBatch == 2
\* number of trace entries up to which the model's tool calls are arbitrary
MaxTrace == 2

\* answer_query's default max_iterations
DefaultMaxIterations == 5
\* _execute_tool's default top_n of the search tools
DefaultTopN == 50
\* _execute_tool's default top_k of rank_and_explain_results
DefaultTopK == 5

\* the reads the enrichment service makes for one viewpoint (statements
\* abbreviated to their table)
EnrichmentReads(viewpoint_id) ==
    LET id == <<Str(viewpoint_id)>>
    IN  << Stmt("SELECT ... FROM viewpoint_wiki WHERE viewpoint_id = %s", id),
           Stmt("SELECT ... FROM viewpoint_wikidata WHERE viewpoint_id = %s", id),
           Stmt("SELECT ... FROM viewpoint_visual_tags WHERE viewpoint_id = %s", id),
           Stmt("SELECT ... FROM viewpoint_ai_summaries WHERE viewpoint_id = %s", id) >>

RECURSIVE Flatten(_)
Flatten(seqs) == IF seqs = <<>> THEN <<>> ELSE Head(seqs) \o Flatten(Tail(seqs))

\* the reads of rank_and_fuse: one enrichment per processed candidate
RankReads(candidates, top_k) ==
    LET top == PySlice(candidates, top_k * 2)
    IN  Flatten([i \in 1..Len(top) |-> EnrichmentReads(top[i].viewpoint_id)])

\* the ViewpointCandidate built from a dict the model supplied
CandidateObject(c) ==
    [viewpoint_id |-> c.viewpoint_id, name_primary |-> c.name_primary,
     category_norm |-> Get(c, "category_norm", None),
     name_score |-> Get(c, "name_score", 0),
     geo_score |-> Get(c, "geo_score", 0),
     category_score |-> Get(c, "category_score", 0),
     popularity |-> Get(c, "popularity", 0)]

\* the QueryIntent built from a dict, every key optional
IntentObject(d) ==
    QueryIntent(Get(d, "name_candidates", <<>>), Get(d, "query_tags", <<>>),
                Get(d, "season_hint", "unknown"), Get(d, "scene_hints", <<>>),
                Get(Get(d, "geo_hints", [none |-> None]), "country", None),
                Get(d, "confidence_notes", <<>>))

\* the get_viewpoint_details branch
get_viewpoint_details(viewpoint_id) ==
    LET hits == SelectSeq(Present(viewpoint_entity),
                          LAMBDA e : e.viewpoint_id = viewpoint_id)
        reads == EnrichmentReads(viewpoint_id) \o
                 <<Stmt("SELECT ... FROM viewpoint_entity WHERE viewpoint_id = %s",
                        <<Str(viewpoint_id)>>)>>
    IN  [raised |-> FALSE,
         result |->
            IF hits = <<>> THEN [error |-> "Viewpoint not found"]
            ELSE [viewpoint_id |-> hits[1].viewpoint_id,
                  name_primary |-> hits[1].name_primary,
                  category_norm |-> hits[1].category_norm,
                  popularity |-> hits[1].popularity,
                  visual_tags |-> enrich_visual_tags(viewpoint_id, None)],
         executed |-> reads]

\* the rank_and_explain_results branch
rank_and_explain_results(arguments) ==
    LET candidates == Get(arguments, "candidates", <<>>)
        query_intent == IntentObject(Get(arguments, "query_intent", [none |-> None]))
        top_k == Get(arguments, "top_k", DefaultTopK)
        candidate_objects == [i \in 1..Len(candidates) |->
                                 CandidateObject(candidates[i])]
        results == rank_and_fuse(candidate_objects, query_intent, top_k)
    IN  [raised |-> FALSE,
         result |-> [results |-> results, count |-> Len(results)],
         executed |-> RankReads(candidate_objects, top_k)]

\* AgentService._execute_tool(function_name, arguments); reply is the LLM's
\* answer to the extractor, used by the extract_query_intent branch only
execute_tool(function_name, arguments, reply) ==
    CASE function_name = "extract_query_intent" ->
            LET r == extract(Get(arguments, "user_text", None), FALSE, reply)
            IN  [raised |-> r.raised, result |-> r.result, executed |-> <<>>,
                 llm |-> r.llm]
      [] function_name = "search_by_name" ->
            search_by_name(Get(arguments, "name_pattern", None),
                           Get(arguments, "top_n", DefaultTopN)) @@ [llm |-> 0]
      [] function_name = "search_by_category" ->
            \* search_by_category(category, top_n): top_n lands in the
            \* country parameter, and normalize_country_name calls .strip()
            \* on it unless it is falsy
            LET top_n == Get(arguments, "top_n", DefaultTopN)
            IN  IF top_n # 0
                THEN [raised |-> TRUE,
                      result |-> [error |-> "AttributeError: 'int' object has no attribute 'strip'"],
                      executed |-> <<>>, llm |-> 0]
                ELSE search_by_category(Get(arguments, "category", None), None,
                                        DefaultTopN) @@ [llm |-> 0]
      [] function_name = "search_by_tags" ->
            search_by_tags(Get(arguments, "tags", <<>>),
                           Get(arguments, "season", "unknown"),
                           Get(arguments, "top_n", DefaultTopN)) @@ [llm |-> 0]
      [] function_name = "search_popular" ->
            search_popular(Get(arguments, "top_n", DefaultTopN)) @@ [llm |-> 0]
      [] function_name = "get_viewpoint_details" ->
            get_viewpoint_details(Get(arguments, "viewpoint_id", 0)) @@ [llm |-> 0]
      [] function_name = "rank_and_explain_results" ->
            rank_and_explain_results(arguments) @@ [llm |-> 0]
      [] OTHER ->
            [raised |-> FALSE, result |-> [error |-> "Unknown tool"],
             executed |-> <<>>, llm |-> 0]

\* candidate dicts the model may hand to rank_and_explain_results
ModelCandidateFuji ==
    [viewpoint_id |-> 1, name_primary |-> "Fuji", category_norm |-> "mountain",
     name_score |-> Scale, category_score |-> Scale]
ModelCandidateToji == [viewpoint_id |-> 2, name_primary |-> "Toji"]
ModelCandidateInflated ==
    [viewpoint_id |-> 3, name_primary |-> "Louvre", name_score |-> 3 * Scale]

\* function.arguments that json.loads refuses
InvalidJson == [invalid_json |-> "{"]

\* a call to a tool the agent does not have
UnknownToolCall == [tool |-> "delete_viewpoint", arguments |-> [viewpoint_id |-> 1]]

\* the tool calls a model message may carry
ModelToolCalls ==
    { [tool |-> "extract_query_intent", arguments |-> [user_text |-> "Fuji in winter"]],
      [tool |-> "search_by_name", arguments |-> [name_pattern |-> "Fuji"]],
      [tool |-> "search_by_category", arguments |-> [category |-> "mountain"]],
      [tool |-> "search_by_tags",
       arguments |-> [tags |-> <<"cherry_blossom">>, season |-> "spring",
                      top_n |-> 2]],
      [tool |-> "search_popular", arguments |-> [top_n |-> 2]],
      [tool |-> "get_viewpoint_details", arguments |-> [viewpoint_id |-> 1]],
      [tool |-> "rank_and_explain_results",
       arguments |-> [candidates |-> <<ModelCandidateToji>>]],
      [tool |-> "rank_and_explain_results",
       arguments |-> [candidates |-> <<ModelCandidateToji, ModelCandidateFuji>>,
                      query_intent |-> [query_tags |-> <<"snow_peak">>,
                                        season_hint |-> "winter"],
                      top_k |-> 2]],
      [tool |-> "rank_and_explain_results",
       arguments |-> [candidates |-> <<ModelCandidateInflated>>, top_k |-> 1]],
      [tool |-> "search_by_name", arguments |-> InvalidJson],
      UnknownToolCall }

\* message.tool_calls of one model message, given the trace so far: up to
\* MaxBatch arbitrary calls while the trace stays within MaxTrace entries; a
\* model that has asked for nothing but the tool the agent does not have may
\* go on asking for it
ModelBatches(log) ==
    {b \in UNION {[1..k -> ModelToolCalls] : k \in 1..MaxBatch} :
         Len(log) + Len(b) <= MaxTrace}
    \cup (IF \A i \in 1..Len(log) : log[i].tool = UnknownToolCall.tool
          THEN {<<UnknownToolCall>>} ELSE {})

\* the extractor's LLM call or its json.loads raised
ExtractFailure == [error |-> "extractor LLM call failed"]
\* no LLM answer is involved
NoReply == [none |-> None]

AnswerIterationsReached ==
    "I've reached the maximum number of iterations. Please try rephrasing your query."

\* answer_query starts with an empty trace
AgentStart(budget) ==
    /\ agpc = "loop" /\ max_iterations = budget /\ iteration = 0
    /\ pending = <<>> /\ tool_calls_log = <<>> /\ agent_result = [none |-> None]
    /\ model_calls = 0 /\ issued = <<>> /\ largest_batch = 0

\* the loop that admits one iteration too many
LoopContinues_OffByOne == iteration <= max_iterations

\* line 332: while iteration < max_iterations
LoopContinues == iteration < max_iterations

\* lines 332-351, message with tool calls: the for loop is entered
AgentModelRequestsTools ==
    /\ agpc = "loop" /\ LoopContinues
    /\ \E batch \in ModelBatches(tool_calls_log) :
          /\ pending' = batch
          /\ largest_batch' = IF Len(batch) > largest_batch THEN Len(batch)
                              ELSE largest_batch
    /\ iteration' = iteration + 1
    /\ model_calls' = model_calls + 1
    /\ llm_calls' = llm_calls + 1
    /\ agpc' = "tools"
    /\ UNCHANGED <<max_iterations, tool_calls_log, agent_result, issued>>
    /\ UNCHANGED <<libVars, corpus, dbLog, sqlVars, queryVars>>

\* lines 332-351 and 374-383, message without tool calls: the final answer
AgentModelAnswers ==
    /\ agpc = "loop" /\ LoopContinues
    /\ iteration' = iteration + 1
    /\ model_calls' = model_calls + 1
    /\ llm_calls' = llm_calls + 1
    /\ agent_result' = [answer |-> "final answer", tool_calls |-> tool_calls_log,
                        iterations |-> iteration + 1]
    /\ agpc' = "returned"
    /\ UNCHANGED <<max_iterations, pending, tool_calls_log, issued, largest_batch>>
    /\ UNCHANGED <<libVars, corpus, dbLog, sqlVars, queryVars>>

\* lines 337-343: the chat-completion call raises (no message arrives);
\* nothing catches it
AgentModelCallFails ==
    /\ agpc = "loop" /\ LoopContinues
    /\ iteration' = iteration + 1
    /\ model_calls' = model_calls + 1
    /\ llm_calls' = llm_calls + 1
    /\ agpc' = "failed"
    /\ UNCHANGED <<max_iterations, pending, tool_calls_log, agent_result, issued,
                   largest_batch>>
    /\ UNCHANGED <<libVars, corpus, dbLog, sqlVars, queryVars>>

\* lines 352-373: one turn of the for loop over message.tool_calls
AgentExecTool ==
    /\ agpc = "tools" /\ pending # <<>>
    /\ LET call == Head(pending)
       IN  IF "invalid_json" \in DOMAIN call.arguments
           THEN /\ agpc' = "raised"
                /\ UNCHANGED <<pending, tool_calls_log, issued, dbLog, llm_calls>>
           ELSE \E reply \in (IF call.tool = "extract_query_intent"
                              THEN ExtractReplies \cup {ExtractFailure}
                              ELSE {NoReply}) :
                   LET out == execute_tool(call.tool, call.arguments, reply)
                   IN  /\ issued' = Append(issued, call)
                       /\ dbLog' = dbLog \o Sent(out.executed, "agent")
                       /\ llm_calls' = llm_calls + out.llm
                       /\ IF out.raised
                          THEN /\ agpc' = "raised"
                               /\ UNCHANGED <<pending, tool_calls_log>>
                          ELSE /\ tool_calls_log' = Append(tool_calls_log,
                                      [tool |-> call.tool,
                                       arguments |-> call.arguments,
                                       result |-> out.result])
                               /\ pending' = Tail(pending)
                               /\ agpc' = IF Tail(pending) = <<>> THEN "loop"
                                          ELSE "tools"
    /\ UNCHANGED <<max_iterations, iteration, agent_result, model_calls,
                   largest_batch>>
    /\ UNCHANGED <<libVars, corpus, sqlVars, queryVars>>

\* lines 385-391: the while condition fails
AgentReturnMaxIterations ==
    /\ agpc = "loop" /\ ~LoopContinues
    /\ agent_result' = [answer |-> AnswerIterationsReached,
                        tool_calls |-> tool_calls_log,
                        iterations |-> iteration,
                        error |-> "max_iterations_reached"]
    /\ agpc' = "returned"
    /\ UNCHANGED <<max_iterations, iteration, pending, tool_calls_log,
                   model_calls, issued, largest_batch>>
    /\ UNCHANGED <<libVars, corpus, dbLog, llm_calls, sqlVars, queryVars>>

NextAgent ==
    \/ AgentModelRequestsTools
    \/ AgentModelAnswers
    \/ AgentModelCallFails
    \/ AgentExecTool
    \/ AgentReturnMaxIterations

\* answer_query called with a budget of the caller's choice or the default
InitAgent ==
    /\ ConnOff /\ CallOff
    /\ corpus = ViewpointIds /\ dbLog = <<>> /\ llm_calls = 0
    /\ SqlOff /\ QueryOff
    /\ \E budget \in (0..MaxIter) \cup {DefaultMaxIterations} : AgentStart(budget)

SpecAgent == InitAgent /\ [][NextAgent]_vars

\* ------------------------------------------------------------- POST /query
\* top_n the handler's own fallback searches pass
MediatorTopN == 50

\* (form user_text, query-string user_text, images attached)
RequestTexts ==
    { <<None, None, FALSE>>, <<None, None, TRUE>>, <<"", None, FALSE>>,
      <<"  ", None, FALSE>>, <<"  ", "Fuji", FALSE>>, <<"", " \n", FALSE>>,
      <<"Fuji in winter", None, FALSE>>, <<"", "Fuji", TRUE>> }

QueryRequests ==
    { [user_text |-> t[1], user_text_query |-> t[2], has_images |-> t[3],
       top_k |-> k] : t \in RequestTexts, k \in 1..MaxTopN }

\* a or b on str-or-None operands
PyOr(a, b) == IF Truthy(a) THEN a ELSE b

\* the check that keeps only the emptiness test
IsBlank_NoStrip(final_user_text) == ~Truthy(final_user_text)

\* line 150: not final_user_text or not final_user_text.strip()
IsBlank(final_user_text) ==
    \/ ~Truthy(final_user_text)
    \/ Len(Strip(final_user_text)) = 0

NoIntent == [none |-> None]

\* the handler's locals before line 172
NoLocals ==
    [final_user_text |-> None, has_intent |-> FALSE, query_intent |-> NoIntent,
     tag_schema_version |-> HandlerSchemaVersion, all_candidates |-> <<>>,
     final_results |-> <<>>, sql_queries_log |-> <<>>, tool_calls_log |-> <<>>]

sql_tools ==
    {"search_by_name", "search_by_category", "search_by_tags",
     "search_by_history_terms", "search_popular", "search_with_llm_sql"}

\* lines 184-201: the intent of the last extract_query_intent entry
TraceIntentEntries(log) ==
    {i \in 1..Len(log) : /\ log[i].tool = "extract_query_intent"
                         /\ "query_intent" \in DOMAIN log[i].result}

\* lines 203-216: the statements of the SQL search entries
TraceSqlQueries(log) ==
    Flatten([i \in 1..Len(log) |->
        IF log[i].tool \in sql_tools /\ "sql" \in DOMAIN log[i].result
        THEN <<[sql |-> log[i].result.sql,
                params |-> Get(log[i].result, "params", <<>>)]>>
        ELSE <<>>])

\* lines 217-219: the candidates of the SQL search entries
TraceCandidates(log) ==
    Flatten([i \in 1..Len(log) |->
        IF log[i].tool \in sql_tools /\ "candidates" \in DOMAIN log[i].result
        THEN log[i].result.candidates ELSE <<>>])

\* lines 222-250: the results of every rank_and_explain_results entry, in
\* trace order
TraceRankedResults(log) ==
    Flatten([i \in 1..Len(log) |->
        IF log[i].tool = "rank_and_explain_results"
        THEN Get(log[i].result, "results", <<>>) ELSE <<>>])

\* lines 333-344: first occurrence of each viewpoint_id
RECURSIVE Dedupe(_, _)
Dedupe(cands, seen_ids) ==
    IF cands = <<>> THEN <<>>
    ELSE IF Head(cands).viewpoint_id \in seen_ids
         THEN Dedupe(Tail(cands), seen_ids)
         ELSE <<Head(cands)>> \o
              Dedupe(Tail(cands), seen_ids \cup {Head(cands).viewpoint_id})

\* lines 287-331: the handler's own fallback searches
MediatorFallback(query_intent) ==
    LET names == query_intent.name_candidates
        name_result == IF names # <<>>
                       THEN search_by_name(names[1], MediatorTopN) ELSE Skip
        fallback_candidates == IF names # <<>>
                               THEN name_result.result.candidates ELSE <<>>
        fallback_sql_logs == IF names # <<>>
                             THEN <<[sql |-> name_result.result.sql,
                                     params |-> name_result.result.params]>>
                             ELSE <<>>
        history_terms == IF query_intent.scene_hints # <<>>
                         THEN query_intent.scene_hints ELSE names
    IN  IF fallback_candidates = <<>> /\ query_intent.query_tags # <<>>
        THEN \* search_by_tags has no tag_sources parameter
             [raised |-> TRUE, candidates |-> <<>>, sql_logs |-> <<>>,
              executed |-> name_result.executed,
              error |-> "TypeError: unexpected keyword argument 'tag_sources'"]
        ELSE IF fallback_candidates = <<>> /\ history_terms # <<>>
        THEN \* SQLSearchTool has no search_by_history_terms
             [raised |-> TRUE, candidates |-> <<>>, sql_logs |-> <<>>,
              executed |-> name_result.executed,
              error |-> "AttributeError: search_by_history_terms"]
        ELSE [raised |-> FALSE, candidates |-> fallback_candidates,
              sql_logs |-> fallback_sql_logs,
              executed |-> name_result.executed, error |-> ""]

sql_insert_query_log ==
    "INSERT INTO query_log (user_text, user_images, query_intent, " \o
    "sql_queries, tool_calls, results, execution_time_ms) " \o
    "VALUES (%s, %s, %s, %s, %s, %s, %s)"

\* the response that drops the slice
ResponseCandidates_Unsliced(final_results, top_k) == final_results

\* line 394: final_results[:top_k]
ResponseCandidates(final_results, top_k) == PySlice(final_results, top_k)

\* final_user_text of line 147
FinalUserText == PyOr(request.user_text, request.user_text_query)

HttpError(code) == [status |-> code]

\* lines 147-154: the request is refused
QueryReject ==
    /\ qpc = "received" /\ IsBlank(FinalUserText)
    /\ response' = HttpError(400)
    /\ qpc' = "done"
    /\ UNCHANGED <<request, locals, log_writes, log_failure>>
    /\ UNCHANGED <<libVars, corpus, dbLog, llm_calls, sqlVars, agentVars>>

\* lines 147-171: the request is accepted and the agent is called with its
\* default budget
QueryStartAgent ==
    /\ qpc = "received" /\ ~IsBlank(FinalUserText)
    /\ locals' = [NoLocals EXCEPT !.final_user_text = FinalUserText]
    /\ agpc' = "loop"
    /\ max_iterations' = DefaultMaxIterations
    /\ qpc' = "agent"
    /\ UNCHANGED <<iteration, pending, tool_calls_log, agent_result, model_calls,
                   issued, largest_batch>>
    /\ UNCHANGED <<request, response, log_writes, log_failure>>
    /\ UNCHANGED <<libVars, corpus, dbLog, llm_calls, sqlVars>>

\* lines 168-171: answer_query raised; the handler does not catch it
QueryAgentRaised ==
    /\ qpc = "agent" /\ agpc \in {"raised", "failed"}
    /\ response' = HttpError(500)
    /\ qpc' = "done"
    /\ UNCHANGED <<request, locals, log_writes, log_failure>>
    /\ UNCHANGED <<libVars, corpus, dbLog, llm_calls, sqlVars, agentVars>>

\* lines 172-265: the trace is read, and its candidates ranked when the
\* agent ranked nothing
QueryProcessTrace ==
    /\ qpc = "agent" /\ agpc = "returned"
    /\ LET log     == Get(agent_result, "tool_calls", <<>>)
           intents == TraceIntentEntries(log)
           has_intent == intents # {}
           last    == log[Max(intents)].result
           query_intent == IF has_intent THEN IntentObject(last.query_intent)
                           ELSE NoIntent
           all_candidates == TraceCandidates(log)
           ranked  == TraceRankedResults(log)
           rank_now == ranked = <<>> /\ all_candidates # <<>> /\ has_intent
       IN  /\ locals' =
                [locals EXCEPT
                   !.has_intent = has_intent,
                   !.query_intent = query_intent,
                   !.tag_schema_version =
                       IF has_intent
                       THEN Get(last, "tag_schema_version", HandlerSchemaVersion)
                       ELSE HandlerSchemaVersion,
                   !.all_candidates = all_candidates,
                   !.sql_queries_log = TraceSqlQueries(log),
                   !.tool_calls_log = log,
                   !.final_results =
                       IF rank_now
                       THEN rank_and_fuse(all_candidates, query_intent,
                                          request.top_k)
                       ELSE ranked]
           /\ dbLog' = IF rank_now
                       THEN dbLog \o Sent(RankReads(all_candidates, request.top_k),
                                          "query")
                       ELSE dbLog
    /\ qpc' = "intent"
    /\ UNCHANGED <<request, response, log_writes, log_failure>>
    /\ UNCHANGED <<libVars, corpus, llm_calls, sqlVars, agentVars>>

\* lines 267-285: the intent is extracted directly when the trace had none
QueryEnsureIntent ==
    /\ qpc = "intent"
    /\ IF locals.has_intent
       THEN /\ qpc' = "fallback"
            /\ UNCHANGED <<locals, response, llm_calls>>
       ELSE \E reply \in ExtractReplies \cup {ExtractFailure} :
               LET r == extract(locals.final_user_text, FALSE, reply)
               IN  /\ llm_calls' = llm_calls + r.llm
                   /\ IF r.raised
                      THEN /\ response' = HttpError(500)
                           /\ qpc' = "done"
                           /\ UNCHANGED locals
                      ELSE /\ locals' =
                                [locals EXCEPT
                                   !.has_intent = TRUE,
                                   !.query_intent = r.result.query_intent,
                                   !.tag_schema_version =
                                       r.result.tag_schema_version,
                                   !.tool_calls_log =
                                       <<[tool |-> "extract_query_intent",
                                          input |-> [user_text |-> locals.final_user_text],
                                          output |-> r.result]>> \o @]
                           /\ qpc' = "fallback"
                           /\ UNCHANGED response
    /\ UNCHANGED <<request, log_writes, log_failure>>
    /\ UNCHANGED <<libVars, corpus, dbLog, sqlVars, agentVars>>

\* lines 287-354: the handler's fallback searches when nothing is ranked
QueryFallback ==
    /\ qpc = "fallback"
    /\ IF locals.final_results # <<>>
       THEN /\ qpc' = "log"
            /\ UNCHANGED <<locals, response, dbLog>>
       ELSE LET f == MediatorFallback(locals.query_intent)
                unique_candidates == Dedupe(f.candidates, {})
            IN  IF f.raised
                THEN /\ response' = HttpError(500)
                     /\ qpc' = "done"
                     /\ dbLog' = dbLog \o Sent(f.executed, "query")
                     /\ UNCHANGED locals
                ELSE /\ qpc' = "log"
                     /\ UNCHANGED response
                     /\ IF f.candidates # <<>>
                        THEN /\ locals' =
                                  [locals EXCEPT
                                     !.sql_queries_log = @ \o f.sql_logs,
                                     !.final_results =
                                         rank_and_fuse(unique_candidates,
                                                       locals.query_intent,
                                                       request.top_k)]
                             /\ dbLog' = dbLog \o
                                  Sent(f.executed \o
                                       RankReads(unique_candidates, request.top_k),
                                       "query")
                        ELSE /\ UNCHANGED locals
                             /\ dbLog' = dbLog \o Sent(f.executed, "query")
    /\ UNCHANGED <<request, log_writes, log_failure>>
    /\ UNCHANGED <<libVars, corpus, llm_calls, sqlVars, agentVars>>

\* lines 364-387: the query_log row is written
QueryLogWrite ==
    /\ qpc = "log"
    /\ log_writes' = log_writes + 1
    /\ dbLog' = dbLog \o
          Sent(<<Stmt(sql_insert_query_log,
                      <<locals.final_user_text, "[]", "query_intent",
                        "sql_queries", "tool_calls", "results",
                        "execution_time">>)>>, "query_log")
    /\ qpc' = "respond"
    /\ UNCHANGED <<request, locals, response, log_failure>>
    /\ UNCHANGED <<libVars, corpus, llm_calls, sqlVars, agentVars>>

\* the ways the write of lines 364-387 can fail: psycopg2.connect raises,
\* Json(...) or model_dump raises inside the with-block, or the INSERT is
\* refused by the server
LogFailures == {"connection failure", "serialisation failure", "INSERT failure"}

\* lines 364-390: the write fails and the failure is swallowed; only a refused
\* INSERT has reached the database
QueryLogWriteFails ==
    /\ qpc = "log"
    /\ log_writes' = log_writes + 1
    /\ \E e \in LogFailures :
          /\ log_failure' = e
          /\ dbLog' = IF e = "INSERT failure"
                      THEN dbLog \o
                           Sent(<<Stmt(sql_insert_query_log,
                                       <<locals.final_user_text, "[]", "query_intent",
                                         "sql_queries", "tool_calls", "results",
                                         "execution_time">>)>>, "query_log")
                      ELSE dbLog
    /\ qpc' = "respond"
    /\ UNCHANGED <<request, locals, response>>
    /\ UNCHANGED <<libVars, corpus, llm_calls, sqlVars, agentVars>>

\* lines 388-392: the except clause prints the failure and the handler goes
\* on to its return statement
AfterLogWrite_Reraises(failure, envelope) ==
    IF failure = None THEN envelope ELSE HttpError(500)

AfterLogWrite(failure, envelope) == envelope

\* lines 392-399
QueryRespond ==
    /\ qpc = "respond"
    /\ response' =
          AfterLogWrite(log_failure,
              [status |-> 200,
               query_intent |-> locals.query_intent,
               candidates |-> ResponseCandidates(locals.final_results, request.top_k),
               sql_queries |-> locals.sql_queries_log,
               tool_calls |-> locals.tool_calls_log,
               tag_schema_version |-> locals.tag_schema_version])
    /\ qpc' = "done"
    /\ UNCHANGED <<request, locals, log_writes, log_failure>>
    /\ UNCHANGED <<libVars, corpus, dbLog, llm_calls, sqlVars, agentVars>>

NextQuery ==
    \/ QueryReject
    \/ QueryStartAgent
    \/ AgentModelRequestsTools
    \/ AgentModelAnswers
    \/ AgentModelCallFails
    \/ AgentExecTool
    \/ AgentReturnMaxIterations
    \/ QueryAgentRaised
    \/ QueryProcessTrace
    \/ QueryEnsureIntent
    \/ QueryFallback
    \/ QueryLogWrite
    \/ QueryLogWriteFails
    \/ QueryRespond

InitQuery ==
    /\ ConnOff /\ CallOff
    /\ corpus = ViewpointIds /\ dbLog = <<>> /\ llm_calls = 0
    /\ SqlOff /\ AgentOff
    /\ qpc = "received" /\ request \in QueryRequests
    /\ locals = NoLocals /\ response = HttpError(0) /\ log_writes = 0
    /\ log_failure = None

SpecQuery == InitQuery /\ [][NextQuery]_vars

\* ------------------------------------------------- Database with-blocks
\* bound on the statements the body of one with-block runs
MaxStatements == 2

WithKinds == {"get_connection", "get_cursor"}

\* what a raising call raises: the driver's error, or an error of the body's
\* own code
DriverError == "psycopg2.Error"
BodyError == "ValueError"

Call(name, ok) == [call |-> name, ok |-> ok]

\* the with-statement is about to call psycopg2.connect
WithEnter(kind) ==
    /\ wpc = "connect" /\ with_kind = kind /\ conn_calls = <<>>
    /\ in_flight = None /\ body_completed = FALSE /\ with_exit = None
    /\ executed_in_body = 0

\* where control goes when the code under the try of lines 22-24 raises: the
\* clause that leaves out the rollback
ExceptClause_NoRollback == "close"

\* lines 25-27: except Exception: conn.rollback(); raise
ExceptClause == "rollback"

\* where control goes when the with-block body is left: get_cursor closes its
\* cursor first (lines 36-39), then get_connection's generator is resumed
AfterBody(raised) ==
    IF with_kind = "get_cursor" THEN "cursor_close"
    ELSE IF raised THEN ExceptClause ELSE "commit"

\* line 21: psycopg2.connect, outside the try; when it raises there is no
\* connection and the with-block body never runs
ConnConnect ==
    /\ wpc = "connect"
    /\ \/ /\ conn_calls' = Append(conn_calls, Call("connect", TRUE))
          /\ wpc' = IF with_kind = "get_cursor" THEN "cursor" ELSE "body"
          /\ UNCHANGED <<in_flight, with_exit>>
       \/ /\ in_flight' = DriverError
          /\ with_exit' = "raised"
          /\ wpc' = "left"
          /\ UNCHANGED conn_calls
    /\ UNCHANGED <<with_kind, body_completed, executed_in_body>>
    /\ UNCHANGED <<callVars, corpus, dbLog, llm_calls, sqlVars, agentVars, queryVars>>

\* line 35: conn.cursor(cursor_factory=RealDictCursor)
ConnOpenCursor ==
    /\ wpc = "cursor"
    /\ conn_calls' = Append(conn_calls, Call("cursor", TRUE))
    /\ wpc' = "body"
    /\ UNCHANGED <<with_kind, in_flight, body_completed, with_exit, executed_in_body>>
    /\ UNCHANGED <<callVars, corpus, dbLog, llm_calls, sqlVars, agentVars, queryVars>>

\* the body runs a statement; a refused statement raises out of the body
ConnBodyExecute ==
    /\ wpc = "body" /\ executed_in_body < MaxStatements
    /\ \E ok \in BOOLEAN :
          /\ conn_calls' = Append(conn_calls, Call("execute", ok))
          /\ executed_in_body' = executed_in_body + 1
          /\ IF ok THEN UNCHANGED <<wpc, in_flight>>
             ELSE /\ in_flight' = DriverError
                  /\ wpc' = AfterBody(TRUE)
    /\ UNCHANGED <<with_kind, body_completed, with_exit>>
    /\ UNCHANGED <<callVars, corpus, dbLog, llm_calls, sqlVars, agentVars, queryVars>>

\* the body's own code raises
ConnBodyRaises ==
    /\ wpc = "body"
    /\ in_flight' = BodyError
    /\ wpc' = AfterBody(TRUE)
    /\ UNCHANGED <<with_kind, conn_calls, body_completed, with_exit, executed_in_body>>
    /\ UNCHANGED <<callVars, corpus, dbLog, llm_calls, sqlVars, agentVars, queryVars>>

\* the body runs to its end, or returns from inside the with-block
ConnBodyCompletes ==
    /\ wpc = "body"
    /\ body_completed' = TRUE
    /\ wpc' = AfterBody(FALSE)
    /\ UNCHANGED <<with_kind, conn_calls, in_flight, with_exit, executed_in_body>>
    /\ UNCHANGED <<callVars, corpus, dbLog, llm_calls, sqlVars, agentVars, queryVars>>

\* lines 38-39: finally: cursor.close(); then the exception, if any, reaches
\* get_connection's generator at its yield
ConnCloseCursor ==
    /\ wpc = "cursor_close"
    /\ conn_calls' = Append(conn_calls, Call("cursor.close", TRUE))
    /\ wpc' = IF in_flight # None THEN ExceptClause ELSE "commit"
    /\ UNCHANGED <<with_kind, in_flight, body_completed, with_exit, executed_in_body>>
    /\ UNCHANGED <<callVars, corpus, dbLog, llm_calls, sqlVars, agentVars, queryVars>>

\* line 24: conn.commit(), inside the try
ConnCommit ==
    /\ wpc = "commit"
    /\ \E ok \in BOOLEAN :
          /\ conn_calls' = Append(conn_calls, Call("commit", ok))
          /\ IF ok THEN wpc' = "close" /\ UNCHANGED in_flight
             ELSE wpc' = ExceptClause /\ in_flight' = DriverError
    /\ UNCHANGED <<with_kind, body_completed, with_exit, executed_in_body>>
    /\ UNCHANGED <<callVars, corpus, dbLog, llm_calls, sqlVars, agentVars, queryVars>>

\* lines 26-27: conn.rollback(); raise.  A rollback that raises replaces the
\* exception in flight.
ConnRollback ==
    /\ wpc = "rollback"
    /\ \E ok \in BOOLEAN :
          /\ conn_calls' = Append(conn_calls, Call("rollback", ok))
          /\ in_flight' = IF ok THEN in_flight ELSE DriverError
    /\ wpc' = "close"
    /\ UNCHANGED <<with_kind, body_completed, with_exit, executed_in_body>>
    /\ UNCHANGED <<callVars, corpus, dbLog, llm_calls, sqlVars, agentVars, queryVars>>

\* lines 28-29: finally: conn.close(); the with-statement is left
ConnClose ==
    /\ wpc = "close"
    /\ conn_calls' = Append(conn_calls, Call("close", TRUE))
    /\ with_exit' = IF in_flight = None THEN "normal" ELSE "raised"
    /\ wpc' = "left"
    /\ UNCHANGED <<with_kind, in_flight, body_completed, executed_in_body>>
    /\ UNCHANGED <<callVars, corpus, dbLog, llm_calls, sqlVars, agentVars, queryVars>>

NextConn ==
    \/ ConnConnect
    \/ ConnOpenCursor
    \/ ConnBodyExecute
    \/ ConnBodyRaises
    \/ ConnBodyCompletes
    \/ ConnCloseCursor
    \/ ConnCommit
    \/ ConnRollback
    \/ ConnClose

InitConn ==
    /\ corpus = ViewpointIds /\ dbLog = <<>> /\ llm_calls = 0
    /\ SqlOff /\ AgentOff /\ QueryOff /\ CallOff
    /\ \E kind \in WithKinds : WithEnter(kind)

SpecConn == InitConn /\ [][NextConn]_vars

\* ------------------------------------------------- EnrichmentService
\* a fetchone() that found no row, or a helper that returned None
NoRow == [none |-> None]
IsRow(r) == "none" \notin DOMAIN r

\* lines 31-54: enrich_wikipedia on the viewpoint_wiki row of the viewpoint; a
\* NULL citations column is a row without that field
enrich_wikipedia(wiki_row) ==
    IF IsRow(wiki_row)
    THEN [title |-> wiki_row.wikipedia_title, lang |-> wiki_row.wikipedia_lang,
          extract |-> wiki_row.extract_text,
          citations |-> Get(wiki_row, "citations", <<>>)]
    ELSE NoRow

\* length of the excerpt kept in an evidence item
ExcerptLen == 200

\* lines 282 and 314: summary[:200] + "..." if len(summary) > 200 else summary
Excerpt(summary) ==
    IF Len(summary) > ExcerptLen THEN SubSeq(summary, 1, ExcerptLen) \o "..."
    ELSE summary

Evidence(source, reference, text) ==
    [source |-> source, reference |-> reference, text |-> text]

\* line 288: isinstance(citation, dict); a citation that is no dict is
\* written [not_a_dict |-> ...]
IsDict(citation) == "not_a_dict" \notin DOMAIN citation

\* lines 286-293
CitationEvidence(citations) ==
    LET dicts == SelectSeq(citations, IsDict)
    IN  [i \in 1..Len(dicts) |->
            Evidence("wikipedia_citation", Get(dicts[i], "ref", ""),
                     Get(dicts[i], "text", ""))]

\* ORDER BY updated_at DESC NULLS LAST LIMIT 1 over the rows of the viewpoint
LatestAiRow(ai_rows) ==
    IF ai_rows = <<>> THEN NoRow
    ELSE ai_rows[CHOOSE i \in 1..Len(ai_rows) :
                    \A j \in 1..Len(ai_rows) :
                        \/ ai_rows[j].updated_at < ai_rows[i].updated_at
                        \/ (ai_rows[j].updated_at = ai_rows[i].updated_at /\ i <= j)]

\* the test that takes any encyclopedia row
HasExtract_AnyRow(wiki_data) == IsRow(wiki_data)

\* line 276: wiki_data and wiki_data.get('extract')
HasExtract(wiki_data) == IsRow(wiki_data) /\ Truthy(wiki_data.extract)

\* lines 263-319: get_historical_summary, given the rows of the viewpoint
get_historical_summary(viewpoint_id, wiki_row, ai_rows) ==
    LET wiki_data == enrich_wikipedia(wiki_row)
        id == <<Str(viewpoint_id)>>
        wiki_read == Stmt("SELECT ... FROM viewpoint_wiki WHERE viewpoint_id = %s", id)
        ai_read == Stmt("SELECT ... FROM viewpoint_ai_summaries WHERE viewpoint_id = %s", id)
        row == LatestAiRow(ai_rows)
    IN  IF HasExtract(wiki_data)
        THEN [summary |-> wiki_data.extract,
              evidence |-> <<Evidence("wikipedia", wiki_data.title,
                                      Excerpt(wiki_data.extract))>> \o
                           CitationEvidence(wiki_data.citations),
              executed |-> <<wiki_read>>]
        ELSE IF IsRow(row) /\ Truthy(row.history_summary)
        THEN [summary |-> row.history_summary,
              evidence |-> <<Evidence("ai_summary",
                                      IF Truthy(row.source) THEN row.source
                                      ELSE "viewpoint_ai_summaries",
                                      Excerpt(row.history_summary))>>,
              executed |-> <<wiki_read, ai_read>>]
        ELSE [summary |-> None, evidence |-> <<>>,
              executed |-> <<wiki_read, ai_read>>]

\* an extract of more than ExcerptLen characters
LongExtract ==
    LET s == "Mount Fuji is the tallest mountain of Japan and an active volcano. "
    IN  s \o s \o s \o s

WikiCitations ==
    { <<>>,
      <<[ref |-> "ref1", text |-> "Official tourism website"]>>,
      <<[ref |-> "ref1", text |-> "Official tourism website"],
        [not_a_dict |-> "see also"],
        [text |-> "Historical records and archives"]>> }

\* the viewpoint_wiki row of a viewpoint: none, or a row whose extract and
\* citations are each NULL, empty or filled
WikiRows ==
    {NoRow}
    \cup { [wikipedia_title |-> "Mount_Fuji", wikipedia_lang |-> "en",
            extract_text |-> e] : e \in {None, "", "Sacred mountain.", LongExtract} }
    \cup { [wikipedia_title |-> "Mount_Fuji", wikipedia_lang |-> "en",
            extract_text |-> e, citations |-> c] :
              e \in {None, "", "Sacred mountain.", LongExtract},
              c \in WikiCitations }

AiRow(summary, at) ==
    [history_summary |-> summary, source |-> "gpt_4o_mini_image_history",
     updated_at |-> at]

\* the viewpoint_ai_summaries rows of a viewpoint, in table order
AiTables ==
    {<<>>}
    \cup { <<AiRow(s, 1)>> : s \in {None, "", "Built in 796."} }
    \cup { <<AiRow(s, 1), AiRow(t, 2)>> :
              s \in {None, "", "Built in 796."}, t \in {None, "Rebuilt in 1644."} }

HistoryCalls ==
    { [op |-> "get_historical_summary", viewpoint_id |-> 2, wiki_row |-> w,
       ai_rows |-> a] : w \in WikiRows, a \in AiTables }

\* ------------------------------------------------- library operations
CallStart(calls) ==
    /\ callpc = "called" /\ call_in \in calls /\ call_out = [none |-> None]

CallGetHistoricalSummary ==
    /\ callpc = "called" /\ call_in.op = "get_historical_summary"
    /\ LET out == get_historical_summary(call_in.viewpoint_id, call_in.wiki_row,
                                         call_in.ai_rows)
       IN  /\ call_out' = [summary |-> out.summary, evidence |-> out.evidence]
           /\ dbLog' = dbLog \o Sent(out.executed, "enrichment")
    /\ callpc' = "returned"
    /\ UNCHANGED <<call_in, connVars, corpus, llm_calls, sqlVars, agentVars, queryVars>>

\* extract on a text (None, empty, blank or filled), with or without images,
\* and the answer the LLM would give
ExtractCalls ==
    { [op |-> "extract", user_text |-> t, has_images |-> im, reply |-> r] :
        t \in {None, "", "  ", "Fuji in winter"}, im \in BOOLEAN,
        r \in ExtractReplies \cup {ExtractFailure} }

CallExtract ==
    /\ callpc = "called" /\ call_in.op = "extract"
    /\ LET r == extract(call_in.user_text, call_in.has_images, call_in.reply)
       IN  /\ call_out' = r.result
           /\ llm_calls' = llm_calls + r.llm
           /\ callpc' = IF r.raised THEN "raised" ELSE "returned"
    /\ UNCHANGED <<call_in, connVars, corpus, dbLog, sqlVars, agentVars, queryVars>>

\* bound on the length of a candidate list handed to rank_and_fuse
MaxCands == 3

\* candidates a retrieval may hand over; the second and the third score alike
RankPool ==
    { CandidateObject(ModelCandidateFuji), CandidateObject(ModelCandidateToji),
      CandidateObject([viewpoint_id |-> 3, name_primary |-> "Louvre"]),
      CandidateObject([viewpoint_id |-> 2, name_primary |-> "Toji",
                       name_score |-> Scale \div 2]) }

RankIntents ==
    { QueryIntent(<<>>, <<>>, "unknown", <<>>, None, <<>>),
      QueryIntent(<<"Fuji">>, <<"mountain", "snow_peak">>, "winter", <<>>, None, <<>>),
      QueryIntent(<<>>, <<"cherry_blossom">>, "spring", <<>>, None, <<>>) }

RankCalls ==
    { [op |-> "rank_and_fuse", candidates |-> c, query_intent |-> q, top_k |-> k] :
        c \in UNION {[1..n -> RankPool] : n \in 0..MaxCands},
        q \in RankIntents, k \in 1..MaxTopN }

\* the candidates behind a ranked list, in the order of that list
RankedOrder(candidates, query_intent, ranked) ==
    [i \in 1..Len(ranked) |->
        candidates[CHOOSE j \in 1..Len(candidates) :
                      FuseOne(candidates[j], query_intent) = ranked[i]]]

\* rank_and_fuse, then rank_and_fuse again on the candidates in ranked order
CallRankTwice ==
    /\ callpc = "called" /\ call_in.op = "rank_and_fuse"
    /\ LET first == rank_and_fuse(call_in.candidates, call_in.query_intent,
                                  call_in.top_k)
           again == RankedOrder(call_in.candidates, call_in.query_intent, first)
       IN  /\ call_out' = [first |-> first, fed_back |-> again,
                           second |-> rank_and_fuse(again, call_in.query_intent,
                                                    call_in.top_k)]
           /\ dbLog' = dbLog \o
                 Sent(RankReads(call_in.candidates, call_in.top_k) \o
                      RankReads(again, call_in.top_k), "query")
    /\ callpc' = "returned"
    /\ UNCHANGED <<call_in, connVars, corpus, llm_calls, sqlVars, agentVars, queryVars>>

\* search_by_category with a country: categories present and absent,
\* countries with and without assets, top_n from 0
CategoryCalls ==
    { [op |-> "search_by_category", category |-> c, country |-> k, top_n |-> n] :
        c \in {"mountain", "temple", "museum", "lake"},
        k \in {"Japan", "France", "zh:China", "Atlantis"},
        n \in 0..MaxTopN }

CallSearchByCategory ==
    /\ callpc = "called" /\ call_in.op = "search_by_category"
    /\ \E out \in {search_by_category(call_in.category, call_in.country,
                                       call_in.top_n)} :
           /\ call_out' = [result |-> out.result, executed |-> out.executed]
           /\ dbLog' = dbLog \o Sent(out.executed, "category")
    /\ callpc' = "returned"
    /\ UNCHANGED <<call_in, connVars, corpus, llm_calls, sqlVars, agentVars, queryVars>>

\* ------------------------------------------------------ RetrievalService
\* the visual tags RetrievalService.search maps to a category (lines 54-58)
retrieval_visual_to_category ==
    [snow_peak |-> "mountain", waterfall |-> "waterfall", lake |-> "lake"]

\* the f-string of lines 125-142
sql_retrieval_search(name_score_sql, category_score_sql, where_clause) ==
    "\nSELECT viewpoint_id, name_primary, name_variants, category_norm, popularity, " \o
    name_score_sql \o " as name_score, 1.0 as geo_score, " \o
    category_score_sql \o " as category_score FROM viewpoint_entity WHERE " \o
    where_clause \o " ORDER BY (" \o name_score_sql \o " + " \o
    category_score_sql \o ") DESC, popularity DESC NULLS LAST LIMIT %s\n"

\* RetrievalService.search(query_intent, top_n, geo_bbox); geo_bbox is None
\* ([none |-> None]) or a box, given by the viewpoints ST_Within finds inside
retrieval_search(query_intent, top_n, geo_bbox) ==
    LET has_bbox == "inside" \in DOMAIN geo_bbox
        names == query_intent.name_candidates
        tags  == query_intent.query_tags
        name_patterns == [i \in 1..Len(names) |-> Like(names[i])]
        listed == Filter(tags, valid_categories)
        hinting == Filter(tags, DOMAIN retrieval_visual_to_category)
        category_list ==
            IF listed = <<>> /\ hinting # <<>>
            THEN <<retrieval_visual_to_category[hinting[1]]>> ELSE listed
        name_conditions == [i \in 1..Len(names) |->
            "(name_primary ILIKE %s OR name_variants::text ILIKE %s)"]
        conditions ==
            (IF names # <<>>
             THEN <<"(" \o Join(" OR ", name_conditions) \o ")">> ELSE <<>>) \o
            (IF category_list # <<>>
             THEN <<"category_norm IN (" \o Placeholders(Len(category_list)) \o ")">>
             ELSE <<>>) \o
            (IF has_bbox
             THEN <<"ST_Within(geom, ST_MakeEnvelope(%s, %s, %s, %s, 4326))">>
             ELSE <<>>)
        where_clause == IF conditions # <<>> THEN Join(" AND ", conditions)
                        ELSE "1=1"
        name_score_sql ==
            IF names # <<>>
            THEN "CASE WHEN (" \o
                 Join(" OR ", [i \in 1..Len(names) |-> "name_primary ILIKE %s"]) \o
                 ") THEN 1.0 ELSE 0.0 END"
            ELSE "0.0"
        category_score_sql ==
            IF category_list # <<>>
            THEN "CASE WHEN category_norm IN (" \o
                 Placeholders(Len(category_list)) \o ") THEN 1.0 ELSE 0.0 END"
            ELSE "0.0"
        params ==
            Flatten([i \in 1..Len(names) |-> <<name_patterns[i], name_patterns[i]>>]) \o
            category_list \o
            (IF has_bbox
             THEN <<"min_lon", "min_lat", "max_lon", "max_lat">> ELSE <<>>) \o
            name_patterns \o category_list \o <<Str(top_n)>>
        sql == sql_retrieval_search(name_score_sql, category_score_sql, where_clause)
        hits == SelectSeq(Present(viewpoint_entity), LAMBDA e :
                    /\ (names = <<>> \/ \E i \in 1..Len(names) :
                            \/ ILike(e.name_primary, names[i])
                            \/ ILike(e.name_variants, names[i]))
                    /\ (category_list = <<>> \/ e.category_norm \in Range(category_list))
                    /\ (~has_bbox \/ e.viewpoint_id \in geo_bbox.inside))
        rows == Limit(SortDesc([i \in 1..Len(hits) |->
                    [viewpoint_id |-> hits[i].viewpoint_id,
                     name_primary |-> hits[i].name_primary,
                     category_norm |-> hits[i].category_norm,
                     popularity |-> hits[i].popularity,
                     name_score |->
                         IF \E n \in 1..Len(names) : ILike(hits[i].name_primary, names[n])
                         THEN Scale ELSE 0,
                     geo_score |-> Scale,
                     category_score |->
                         IF hits[i].category_norm \in Range(category_list)
                         THEN Scale ELSE 0]],
                 LAMBDA r : (r.name_score + r.category_score) * (Scale + 1)
                            + r.popularity), top_n)
    IN  IF DriverBinds(sql, params)
        THEN [raised |-> FALSE,
              result |-> [candidates |-> Candidates(rows),
                          sql_queries_log |-> <<Stmt(sql, params)>>],
              executed |-> <<Stmt(sql, params)>>,
              attempted |-> <<Stmt(sql, params)>>]
        ELSE [raised |-> TRUE, result |-> [error |-> "cursor.execute raised"],
              executed |-> <<>>,
              attempted |-> <<Stmt(sql, params)>>]

\* the intents _fallback_search is called with: each stage wins for one
FallbackIntents ==
    SqlIntents \cup
    { QueryIntent(<<"Fuji">>, <<"mountain">>, "winter", <<>>, "Japan", <<>>),
      QueryIntent(<<"Xi", "Nowhere", "Tojiji">>, <<>>, "unknown", <<>>, None, <<>>),
      QueryIntent(<<>>, <<"temple">>, "unknown", <<>>, None, <<>>),
      QueryIntent(<<>>, <<"mountain">>, "unknown", <<>>, "France", <<>>),
      QueryIntent(<<"Fujiyama">>, <<"snow_peak">>, "winter", <<>>, None, <<>>) }

FallbackCalls ==
    { [op |-> "_fallback_search", query_intent |-> q, top_n |-> n] :
        q \in FallbackIntents, n \in 1..MaxTopN }

\* single calls of the retrieval operations
PrimitiveCalls ==
    { [op |-> "search_by_name", name_pattern |-> n, top_n |-> k] :
        n \in {"Fuji", "Nowhere"}, k \in 1..MaxTopN }
    \cup { [op |-> "search_popular", top_n |-> k] : k \in 1..MaxTopN }
    \cup { [op |-> "search_by_tags", tags |-> t, season |-> s, top_n |-> k] :
             t \in {<<>>, <<"cherry_blossom">>, <<"snow_peak">>,
                    <<"sunrise", "snow_peak">>, <<"snow_peak", "waterfall">>},
             s \in {None, "winter", "unknown"}, k \in 1..MaxTopN }
    \cup { [op |-> "RetrievalService.search", query_intent |-> q, top_n |-> k,
            geo_bbox |-> b] :
             q \in FallbackIntents, k \in 1..MaxTopN, b \in {[none |-> None], [inside |-> {1, 2}]} }

\* one retrieval operation, from its call to its return or its exception
CallPrimitive ==
    /\ callpc = "called"
    /\ call_in.op \in {"search_by_name", "search_popular", "search_by_tags",
                       "RetrievalService.search"}
    /\ \E out \in { IF call_in.op = "search_by_name"
                     THEN search_by_name(call_in.name_pattern, call_in.top_n)
                     ELSE IF call_in.op = "search_popular"
                     THEN search_popular(call_in.top_n)
                     ELSE IF call_in.op = "search_by_tags"
                     THEN search_by_tags(call_in.tags, call_in.season, call_in.top_n)
                     ELSE retrieval_search(call_in.query_intent, call_in.top_n,
                                           call_in.geo_bbox) } :
           /\ call_out' = [result |-> out.result, executed |-> out.executed,
                           attempted |-> Get(out, "attempted", out.executed)]
           /\ dbLog' = dbLog \o Sent(out.executed, "primitive")
           /\ callpc' = IF out.raised THEN "raised" ELSE "returned"
    /\ UNCHANGED <<call_in, connVars, corpus, llm_calls, sqlVars, agentVars, queryVars>>

CallFallbackSearch ==
    /\ callpc = "called" /\ call_in.op = "_fallback_search"
    /\ \E out \in {fallback_search(call_in.query_intent, call_in.top_n)} :
           /\ call_out' = [result |-> out.result, executed |-> out.executed]
           /\ dbLog' = dbLog \o Sent(out.executed, "fallback")
           /\ callpc' = IF out.raised THEN "raised" ELSE "returned"
    /\ UNCHANGED <<call_in, connVars, corpus, llm_calls, sqlVars, agentVars, queryVars>>

NextCalls ==
    \/ CallGetHistoricalSummary
    \/ CallPrimitive
    \/ CallFallbackSearch
    \/ CallSearchByCategory
    \/ CallRankTwice
    \/ CallExtract

InitCalls ==
    /\ corpus \in Corpora /\ dbLog = <<>> /\ llm_calls = 0
    /\ SqlOff /\ AgentOff /\ QueryOff /\ ConnOff
    /\ CallStart(HistoryCalls \cup ExtractCalls \cup RankCalls \cup CategoryCalls
                 \cup FallbackCalls \cup PrimitiveCalls)

SpecCalls == InitCalls /\ [][NextCalls]_vars

\* ------------------------------------------------ claims on SpecSql
ClaimForbidden ==
    {"INSERT", "UPDATE", "DELETE", "DROP", "CREATE", "ALTER", "TRUNCATE", "EXEC"}

\* C1: a statement produced by the SQL generator reaches the database only
\* if, fences stripped, its upper-cased text begins with SELECT and contains
\* none of the forbidden keywords.
C1_OnlyAllowedSqlReachesDb ==
    \A i \in 1..Len(dbLog) :
        dbLog[i].by = "llm" =>
            /\ dbLog[i].sql = StripMarkdown(generated.content)
            /\ StartsWith(Upper(dbLog[i].sql), "SELECT")
            /\ \A k \in ClaimForbidden : ~Contains(Upper(dbLog[i].sql), k)

\* a fenced reply was accepted and its statement executed
C1_Witness ==
    /\ generated.status = "ok"
    /\ generated.content # generated.sql
    /\ \E i \in 1..Len(dbLog) : dbLog[i].by = "llm" /\ dbLog[i].sql = generated.sql

\* C2: the statement handed to the database by search_with_llm_sql has as
\* many %s placeholders as parameters, after the pad/trim repair too.
C2_PlaceholdersMatchParams ==
    /\ generated.status = "ok" =>
           CountPlaceholders(generated.sql) = Len(generated.params)
    /\ \A i \in 1..Len(dbLog) :
           dbLog[i].by = "llm" =>
               CountPlaceholders(dbLog[i].sql) = Len(dbLog[i].params)

\* a statement whose parameter list had to be trimmed was executed
C2_Witness ==
    /\ generated.status = "ok"
    /\ Len(generated.params) < Len(IntentParams(sql_in.query_intent, sql_in.top_n))
    /\ Len(generated.params) > 0
    /\ \E i \in 1..Len(dbLog) : dbLog[i].by = "llm"

C4_TwoExits ==
    /\ model_calls <= max_iterations
    /\ agpc \notin {"off", "loop", "tools", "failed"} =>
          /\ agpc = "returned"
          /\ \/ /\ "error" \notin DOMAIN agent_result
                /\ agent_result.answer = "final answer"
                /\ agent_result.iterations <= max_iterations
             \/ /\ "error" \in DOMAIN agent_result
                /\ agent_result.error = "max_iterations_reached"
                /\ agent_result.iterations = max_iterations
                /\ agent_result.tool_calls = tool_calls_log
          /\ max_iterations = 0 =>
                model_calls = 0 /\ "error" \in DOMAIN agent_result

\* C5: every tool invocation the agent makes is in the trace exactly once,
\* in order, with its name and arguments, whatever the tool's name and
\* however its execution ends, and the trace handed back is that trace.
C5_TraceHoldsEveryInvocation ==
    /\ Len(tool_calls_log) = Len(issued)
    /\ \A i \in 1..Len(tool_calls_log) :
          /\ i <= Len(issued)
          /\ tool_calls_log[i].tool = issued[i].tool
          /\ tool_calls_log[i].arguments = issued[i].arguments
    /\ agpc = "returned" => agent_result.tool_calls = tool_calls_log

\* ---------------------------------------------- claims on SpecQuery
ClaimVocabulary ==
    tag_schema.categories \cup tag_schema.visual_tags \cup tag_schema.scene_tags

\* C6: the query_tags of every intent the extractor returns, and of the
\* intent of every /query response, are tags of the active schema
\* (categories, visual tags or scene tags), whatever the LLM emitted and
\* whether the intent came from the agent's trace or from the direct
\* extraction.
C6_QueryTagsInSchema ==
    /\ \A i \in 1..Len(tool_calls_log) :
          (/\ tool_calls_log[i].tool = "extract_query_intent"
           /\ "query_intent" \in DOMAIN tool_calls_log[i].result) =>
              Range(tool_calls_log[i].result.query_intent.query_tags)
                  \subseteq ClaimVocabulary
    /\ locals.has_intent =>
          Range(locals.query_intent.query_tags) \subseteq ClaimVocabulary
    /\ response.status = 200 =>
          Range(response.query_intent.query_tags) \subseteq ClaimVocabulary

\* a response whose intent was extracted directly from a reply that carried
\* a tag outside the schema
C6_Witness ==
    /\ response.status = 200
    /\ "output" \in DOMAIN response.tool_calls[1]
    /\ response.query_intent.query_tags = <<"mountain">>
    /\ response.query_intent.confidence_notes # <<>>

\* C7: the candidates of a /query response are at most top_k (top_k >= 1),
\* whatever the agent's trace holds.
C7_AtMostTopK ==
    (response.status = 200 /\ request.top_k >= 1) =>
        Len(response.candidates) <= request.top_k

C7_Witness ==
    /\ response.status = 200
    /\ Len(locals.final_results) > request.top_k
    /\ Len(response.candidates) = request.top_k

\* C8: the candidates of a /query response are in non-increasing order of
\* match_confidence, also when the trace holds two or more
\* rank_and_explain_results calls (stated for the responses whose confidences
\* all lie between 0 and 1).
C8_CandidatesSorted ==
    (/\ response.status = 200
     /\ \A k \in 1..Len(response.candidates) :
            response.candidates[k].match_confidence \in 0..FullConfidence) =>
        \A i, j \in 1..Len(response.candidates) :
            i < j => response.candidates[i].match_confidence >=
                     response.candidates[j].match_confidence

\* C9: every result of rank_and_fuse, for the handler's candidates and for
\* the candidates the model hands to rank_and_explain_results, has its
\* match_confidence between 0 and 1 (FullConfidence in the scaled unit).
C9_ConfidenceInUnitInterval ==
    /\ \A i \in 1..Len(tool_calls_log) :
          tool_calls_log[i].tool = "rank_and_explain_results" =>
              \A k \in 1..Len(tool_calls_log[i].result.results) :
                  /\ tool_calls_log[i].result.results[k].match_confidence >= 0
                  /\ tool_calls_log[i].result.results[k].match_confidence
                         <= FullConfidence
    /\ qpc # "off" =>
          \A k \in 1..Len(locals.final_results) :
              /\ locals.final_results[k].match_confidence >= 0
              /\ locals.final_results[k].match_confidence <= FullConfidence

\* None, empty or made of whitespace only
ClaimBlankText(t) ==
    \/ t = None
    \/ \A i \in 1..Len(t) : SubSeq(t, i, i) \in {" ", "\t", "\n", "\r"}

\* C10: a /query request without text (missing, empty or whitespace only) is
\* answered with status 400, and no agent call, LLM call, retrieval query or
\* query_log write happens for it.
C10_BlankTextRejectedFirst ==
    /\ (/\ qpc \notin {"off", "received"}
        /\ ClaimBlankText(request.user_text)
        /\ ClaimBlankText(request.user_text_query)) => response.status = 400
    /\ response.status = 400 =>
          /\ agpc = "off" /\ model_calls = 0 /\ llm_calls = 0
          /\ dbLog = <<>> /\ log_writes = 0

C10_Witness ==
    /\ response.status = 400
    /\ request.user_text = "  "
    /\ request.user_text_query = None

\* C11: a failed query_log write, whatever the failure, never fails the
\* request: the log step leaves the handler's locals alone and the response is
\* the 200 envelope built from them, the one a successful write is followed by.
C11_LogFailureKeepsResponse ==
    /\ [](qpc = "done" /\ log_writes > 0 =>
            response = [status |-> 200,
                        query_intent |-> locals.query_intent,
                        candidates |-> PySlice(locals.final_results, request.top_k),
                        sql_queries |-> locals.sql_queries_log,
                        tool_calls |-> locals.tool_calls_log,
                        tag_schema_version |-> locals.tag_schema_version])
    /\ [][log_writes' # log_writes =>
            locals' = locals /\ request' = request /\ qpc' = "respond"]_vars

C11_Witness ==
    /\ qpc = "done" /\ log_failure = "INSERT failure"
    /\ response.status = 200 /\ response.candidates # <<>>

\* a SELECT statement without any forbidden keyword, in any letter case
ClaimSelectOnly(sql) ==
    \E upper \in {Upper(sql)} :
        /\ StartsWith(Strip(upper), "SELECT")
        /\ \A k \in ClaimForbidden : ~Contains(upper, k)

\* the statements with a fixed text, judged once
ClaimFixedSelects ==
    {sql \in {sql_search_by_name, sql_search_popular, sql_category_plain,
              sql_category_fallback}
             \cup {TagsStatement(c, t, s) : c \in 0..3, t \in 0..3, s \in BOOLEAN} :
         ClaimSelectOnly(sql)}

\* C13: every element of sql_queries in a /query response is a SELECT
\* statement and contains none of the forbidden keywords, whether it comes
\* from the agent's trace or from the handler's own fallback search.
C13_SqlQueriesAreSelects ==
    response.status = 200 =>
        \A i \in 1..Len(response.sql_queries) :
            \/ response.sql_queries[i].sql \in ClaimFixedSelects
            \/ ClaimSelectOnly(response.sql_queries[i].sql)

\* a response that lists a statement of the trace and one of the fallback
C13_Witness ==
    /\ response.status = 200
    /\ Len(response.sql_queries) > Len(TraceSqlQueries(agent_result.tool_calls))
    /\ TraceSqlQueries(agent_result.tool_calls) # <<>>

\* ----------------------------------------------- claims on SpecConn
ClaimCalls(name) == {i \in 1..Len(conn_calls) : conn_calls[i].call = name}
ClaimCommitted == \E i \in ClaimCalls("commit") : conn_calls[i].ok
ClaimCommitRaised == \E i \in ClaimCalls("commit") : ~conn_calls[i].ok

ClaimEvidenceSources == {"wikipedia", "wikipedia_citation", "ai_summary"}

\* the encyclopedia extract of the call is absent or empty
ClaimNoExtract ==
    \/ "none" \in DOMAIN call_in.wiki_row
    \/ call_in.wiki_row.extract_text \in {None, ""}

\* the newest AI-summary row of the call is absent or holds no summary
ClaimNoAiSummary ==
    \/ call_in.ai_rows = <<>>
    \/ \E i \in 1..Len(call_in.ai_rows) :
          /\ \A j \in 1..Len(call_in.ai_rows) :
                 call_in.ai_rows[j].updated_at <= call_in.ai_rows[i].updated_at
          /\ call_in.ai_rows[i].history_summary \in {None, ""}

\* C14: get_historical_summary returns for every combination of rows; every
\* evidence item has one of the three sources; ai_summary evidence appears
\* only when the encyclopedia extract is absent or empty; with no extract and
\* no AI summary the result is (None, no evidence).
C14_HistoricalEvidenceSources ==
    (callpc = "returned" /\ call_in.op = "get_historical_summary") =>
        /\ \A i \in 1..Len(call_out.evidence) :
               call_out.evidence[i].source \in ClaimEvidenceSources
        /\ (\E i \in 1..Len(call_out.evidence) :
               call_out.evidence[i].source = "ai_summary") => ClaimNoExtract
        /\ (ClaimNoExtract /\ ClaimNoAiSummary) =>
               (call_out.summary = None /\ call_out.evidence = <<>>)

C14_Witness ==
    /\ callpc = "returned" /\ call_in.op = "get_historical_summary"
    /\ "none" \notin DOMAIN call_in.wiki_row
    /\ call_in.wiki_row.extract_text = ""
    /\ Len(call_in.ai_rows) = 2
    /\ Len(call_out.evidence) = 1 /\ call_out.evidence[1].source = "ai_summary"

\* C15: extract called with no text (None or empty) and no image returns an
\* intent with no name candidate and no tag, season_hint unknown and at least
\* one confidence note, and makes no LLM call.
C15_EmptyInputDefaultIntent ==
    (callpc # "called" /\ call_in.op = "extract"
       /\ call_in.user_text \in {None, ""} /\ ~call_in.has_images) =>
        /\ callpc = "returned"
        /\ call_out.query_intent.name_candidates = <<>>
        /\ call_out.query_intent.query_tags = <<>>
        /\ call_out.query_intent.season_hint = "unknown"
        /\ Len(call_out.query_intent.confidence_notes) >= 1
        /\ llm_calls = 0

C15_Witness ==
    /\ callpc = "returned" /\ call_in.op = "extract"
    /\ call_in.user_text = "" /\ ~call_in.has_images
    /\ "error" \in DOMAIN call_in.reply
    /\ call_out.query_intent.confidence_notes # <<>>

\* the viewpoints of a ranked list with their confidences, in order
ClaimRanking(results) ==
    [i \in 1..Len(results) |-> <<results[i].viewpoint_id, results[i].match_confidence>>]

\* C16: ranking the candidates again, in the order the first ranking gave
\* them, with the same intent and top_k, gives the same viewpoints in the same
\* order with the same match_confidence.
C16_RerankIsNoOp ==
    (callpc = "returned" /\ call_in.op = "rank_and_fuse") =>
        ClaimRanking(call_out.second) = ClaimRanking(call_out.first)

\* a list whose ranking moved a candidate and kept two equal confidences
C16_Witness ==
    /\ callpc = "returned" /\ call_in.op = "rank_and_fuse"
    /\ Len(call_out.first) = 2
    /\ call_out.first[1].match_confidence = call_out.first[2].match_confidence
    /\ call_out.first[1].viewpoint_id # call_out.first[2].viewpoint_id
    /\ call_out.first[1].viewpoint_id # call_in.candidates[1].viewpoint_id

\* ------------------------------------------- further claims on SpecSql
\* words by which a warning can refer to the refusal of the generated SQL
ClaimRejectionWords ==
    {"SQL", "sql", "reject", "Reject", "refus", "Forbidden", "forbidden",
     "not allowed", "allow-list", "SELECT"}

\* C17: when the generated statement fails the allow-list check, the envelope
\* search_with_llm_sql returns after the fallback carries a warning that
\* refers to the rejection, whether or not the fallback found candidates.
C17_RejectionWarned ==
    (sqlpc = "done" /\ generated.status = "rejected") =>
        /\ "warning" \in DOMAIN sql_result
        /\ \E w \in ClaimRejectionWords : Contains(sql_result.warning, w)

\* ------------------------------------------ further claims on SpecCalls
\* the rows the country-filtered join of the call returns
ClaimJoinRows ==
    Limit(CountryJoinRows(call_in.category, normalize_country_name(call_in.country)),
          call_in.top_n)

\* the category query without the country filter was the second statement
ClaimRetriedWithoutCountry ==
    /\ Len(call_out.executed) >= 2
    /\ call_out.executed[2] =
          Stmt(sql_category_fallback,
               <<call_in.category, call_in.category, Str(call_in.top_n)>>)
    /\ call_out.result.sql = sql_category_fallback

\* C18 as stated: search_by_category with a country whose country-filtered
\* join returns zero rows runs the category query without the country filter
\* and returns an envelope with a warning, for every category, country, top_n
\* and corpus.
C18_ZeroRowsRetryAndWarn ==
    (callpc = "returned" /\ call_in.op = "search_by_category"
       /\ Len(ClaimJoinRows) = 0) =>
        /\ ClaimRetriedWithoutCountry
        /\ "warning" \in DOMAIN call_out.result

\* C18 amended: on zero rows the query without the filter is run; the
\* envelope carries a warning exactly when no viewpoint of the category has
\* the country, which is always so for top_n >= 1 and need not be for top_n = 0.
C18_ZeroRowsRetryWarnIfNoMatch ==
    (callpc = "returned" /\ call_in.op = "search_by_category"
       /\ Len(ClaimJoinRows) = 0) =>
        /\ ClaimRetriedWithoutCountry
        /\ "warning" \in DOMAIN call_out.result <=>
              CountryJoinRows(call_in.category,
                              normalize_country_name(call_in.country)) = <<>>
        /\ call_in.top_n >= 1 => "warning" \in DOMAIN call_out.result

\* a retry that found nothing either, and still warns
C18_Witness ==
    /\ callpc = "returned" /\ call_in.op = "search_by_category"
    /\ call_in.top_n >= 1
    /\ Len(ClaimJoinRows) = 0
    /\ ClaimRetriedWithoutCountry
    /\ call_out.result.count = 0
    /\ "warning" \in DOMAIN call_out.result

\* ----------------------------------------- further claims on SpecQuery
\* an entry the handler itself wrote into the trace (input/output keys)
ClaimByMediator(entry) == "output" \in DOMAIN entry

\* the statements of a list occur in the database log in the list's order
RECURSIVE ClaimOccursInOrder(_, _)
ClaimOccursInOrder(listed, sent) ==
    IF listed = <<>> THEN TRUE
    ELSE IF sent = <<>> THEN FALSE
    ELSE IF Head(sent).sql = Head(listed).sql /\ Head(sent).params = Head(listed).params
         THEN ClaimOccursInOrder(Tail(listed), Tail(sent))
         ELSE ClaimOccursInOrder(listed, Tail(sent))

\* the SQL half of C19 alone
ClaimSqlInOrder ==
    response.status = 200 => ClaimOccursInOrder(response.sql_queries, dbLog)

\* C19: in every response tool_calls lists the invocations in the order they
\* were invoked (the agent's, in the agent's order, then the handler's own,
\* which it makes after the agent has finished) and sql_queries lists the
\* statements in the order they were executed.
C19_LogsInInvocationOrder ==
    /\ response.status = 200 =>
          response.tool_calls =
              tool_calls_log \o SelectSeq(response.tool_calls, ClaimByMediator)
    /\ ClaimSqlInOrder

\* the handler extracted the intent itself
ClaimMediatorExtracted ==
    \E i \in 1..Len(locals.tool_calls_log) : ClaimByMediator(locals.tool_calls_log[i])

\* the ranking of what the cascade of _fallback_search finds for the intent
ClaimCascadeRanking ==
    LET found == fallback_search(locals.query_intent, MediatorTopN)
    IN  IF found.raised \/ found.result.count = 0 THEN <<>>
        ELSE PySlice(rank_and_fuse(found.result.candidates, locals.query_intent,
                                   request.top_k), request.top_k)

\* C20: when the trace held no intent and nothing ranked, the handler
\* extracts the intent itself, runs the cascade (name; category with country;
\* category without; tags with season; partial name), ranks the first
\* non-empty stage and returns a response, whatever the extracted intent.
C20_MediatorCascadeResponds ==
    (qpc = "done" /\ ClaimMediatorExtracted
       /\ TraceRankedResults(tool_calls_log) = <<>>) =>
        /\ response.status = 200
        /\ response.candidates = ClaimCascadeRanking

\* the trace gave an intent, no search candidates and no ranked results
ClaimIntentOnlyTrace ==
    /\ TraceIntentEntries(tool_calls_log) # {}
    /\ TraceCandidates(tool_calls_log) = <<>>
    /\ TraceRankedResults(tool_calls_log) = <<>>

\* C21: when the trace yields an intent but neither candidates nor ranked
\* results, the handler sends no retrieval query of its own and answers with
\* an empty candidates list and that intent.
C21_IntentOnlyGivesEmptyResult ==
    (qpc = "done" /\ agpc = "returned" /\ ClaimIntentOnlyTrace) =>
        /\ \A i \in 1..Len(dbLog) : dbLog[i].by # "query"
        /\ response.status = 200
        /\ response.candidates = <<>>
        /\ response.query_intent =
              IntentObject(tool_calls_log[Max(TraceIntentEntries(tool_calls_log))]
                               .result.query_intent)

\* the stages of the cascade for the call's intent, in the stated order, each
\* as the primitive alone would answer it (Skip where it does not apply)
ClaimStages ==
    LET q     == call_in.query_intent
        n     == call_in.top_n
        names == q.name_candidates
        cats  == Filter(q.query_tags, valid_categories)
        vis   == FilterOut(q.query_tags, valid_categories)
        country == q.geo_hints.country
        season  == IF q.season_hint = "unknown" THEN None ELSE q.season_hint
    IN  << IF names # <<>> THEN search_by_name(names[1], n) ELSE Skip,
           IF cats # <<>> /\ country # None /\ country # ""
           THEN search_by_category(cats[1], country, n) ELSE Skip,
           IF cats # <<>> THEN search_by_category(cats[1], None, n) ELSE Skip,
           IF vis # <<>> THEN search_by_tags(vis, season, n) ELSE Skip >>
        \o [i \in 1..Len(names) |->
              IF Len(names[i]) > 2
              THEN search_by_name(IF Len(names[i]) > 4
                                  THEN SubSeq(names[i], 1, Len(names[i]) \div 2)
                                  ELSE names[i], n)
              ELSE Skip]

\* the first of the stages with a candidate, or 0
ClaimFirstNonEmpty(stages) ==
    IF \E i \in 1..Len(stages) : stages[i].result.count > 0
    THEN CHOOSE i \in 1..Len(stages) :
            /\ stages[i].result.count > 0
            /\ \A j \in 1..(i - 1) : stages[j].result.count = 0
    ELSE 0

ClaimWinner == ClaimFirstNonEmpty(ClaimStages)

\* the statements of the stages up to the winner, all of them without one
ClaimStagesRun(stages, winner) ==
    Flatten([i \in 1..(IF winner = 0 THEN Len(stages) ELSE winner) |->
                stages[i].executed])

\* C22: _fallback_search tries name, category with country, category without
\* country, tags with season and the partial names in that order, returns the
\* result of the first stage with a candidate, runs no stage after it, and
\* returns no candidates and a warning when no stage has one.
C22_FirstNonEmptyStageWins ==
    (callpc = "returned" /\ call_in.op = "_fallback_search") =>
        \E stages \in {ClaimStages} : \E winner \in {ClaimFirstNonEmpty(stages)} :
            /\ call_out.executed = ClaimStagesRun(stages, winner)
            /\ IF winner = 0
               THEN /\ call_out.result.candidates = <<>>
                    /\ call_out.result.count = 0
                    /\ "warning" \in DOMAIN call_out.result
               ELSE call_out.result = stages[winner].result

\* a cascade won by a partial name after three empty stages
C22_Witness ==
    /\ callpc = "returned" /\ call_in.op = "_fallback_search"
    /\ ClaimWinner > 4
    /\ call_out.result.count > 0
    /\ Len(call_out.executed) >= 3

\* the provenance an envelope carries: its sql and params, if any
ClaimProvenance(result) ==
    IF "sql" \in DOMAIN result
    THEN <<[sql |-> result.sql, params |-> Get(result, "params", <<>>)]>>
    ELSE <<>>

\* the retrieval statements among those sent: all but the COUNT of the
\* warning check
ClaimAttempts(executed) ==
    SelectSeq(executed, LAMBDA s : ~Contains(s.sql, "COUNT(DISTINCT"))

\* C23: every statement attempted while serving a retrieval is in the
\* provenance returned to the caller, in the order attempted: every cascade
\* stage tried, and both queries of a category search that fell back.
C23_EveryAttemptInProvenance ==
    (callpc = "returned"
       /\ call_in.op \in {"_fallback_search", "search_by_category"}) =>
        ClaimOccursInOrder(ClaimAttempts(call_out.executed),
                           ClaimProvenance(call_out.result))

\* the stages of the call's cascade that apply to its intent
ClaimApplicable == {i \in 1..Len(ClaimStages) : ClaimStages[i] # Skip}

\* C24: a primitive of the cascade that fails with a database error is
\* passed over and the next one is tried; _fallback_search raises only when
\* every primitive that applies has failed.
C24_ErrorOnlyWhenAllStagesFail ==
    (call_in.op = "_fallback_search" /\ callpc = "raised") =>
        \A i \in ClaimApplicable : ClaimStages[i].raised

\* the candidates rank_and_fuse may draw its results from
ClaimFirst2k ==
    1..(IF Len(call_in.candidates) < 2 * call_in.top_k
        THEN Len(call_in.candidates) ELSE 2 * call_in.top_k)

\* C25: rank_and_fuse returns at most top_k results, each from one of the
\* first 2 * top_k candidates, in non-increasing match_confidence, and results
\* of equal match_confidence in the order of their candidates.
C25_RankedTopKOfFirst2k ==
    (callpc = "returned" /\ call_in.op = "rank_and_fuse") =>
        LET results == call_out.first
        IN  /\ Len(results) <= call_in.top_k
            /\ \A i \in 1..(Len(results) - 1) :
                  results[i].match_confidence >= results[i + 1].match_confidence
            /\ \E from \in [1..Len(results) -> ClaimFirst2k] :
                  /\ \A i \in 1..Len(results) :
                        results[i] = FuseOne(call_in.candidates[from[i]],
                                             call_in.query_intent)
                  /\ \A i, j \in 1..Len(results) :
                        i # j => from[i] # from[j]
                  /\ \A i, j \in 1..Len(results) :
                        (i < j /\ results[i].match_confidence =
                                  results[j].match_confidence)
                            => from[i] < from[j]

\* more candidates than 2 * top_k, the best of them beyond the cut, and two
\* different viewpoints of equal confidence within it
C25_Witness ==
    /\ callpc = "returned" /\ call_in.op = "rank_and_fuse"
    /\ call_in.top_k = 1 /\ Len(call_in.candidates) = 3
    /\ call_in.candidates[1].viewpoint_id # call_in.candidates[2].viewpoint_id
    /\ LET conf(i) == FuseOne(call_in.candidates[i],
                              call_in.query_intent).match_confidence
       IN  conf(1) = conf(2) /\ conf(3) > conf(1)
    /\ Len(call_out.first) = 1
    /\ call_out.first[1].viewpoint_id = call_in.candidates[1].viewpoint_id

\* the fragments the predicates of a candidate call for, in the fixed order
ClaimFragments(candidate, query_intent) ==
    LET visual_tags_data == enrich_visual_tags(candidate.viewpoint_id,
                                               query_intent.season_hint)
        tag_score    == tag_overlap_score(visual_tags_data, query_intent)
        season_bonus == season_match_bonus(visual_tags_data, query_intent)
    IN  (IF 10 * candidate.name_score > 7 * Scale THEN <<"Name matches">> ELSE <<>>) \o
        (IF candidate.category_score > 0 THEN <<"Category">> ELSE <<>>) \o
        (IF tag_score > 0 THEN <<"Visual tags match">> ELSE <<>>) \o
        (IF 2 * season_bonus > Scale THEN <<"Strong season match">> ELSE <<>>) \o
        (IF 10 * candidate.popularity > 7 * Scale
         THEN <<"Highly popular destination">> ELSE <<>>)

\* C26: match_explanation has one fragment for each predicate that fires, in
\* the order name, category, visual-tag overlap, season, popularity; so the
\* visual-tag fragment is there whenever tag_overlap_score > 0 and the name
\* fragment comes first whenever name_score = 1.0.
C26_ExplanationFragments ==
    (callpc = "returned" /\ call_in.op = "rank_and_fuse") =>
        \A i \in 1..Len(call_out.first) :
            call_out.first[i].match_explanation =
                ClaimFragments(call_out.fed_back[i], call_in.query_intent)

\* the statements a returned or failed call handed to cursor.execute
ClaimHandedToDriver ==
    IF "attempted" \in DOMAIN call_out THEN call_out.attempted
    ELSE call_out.executed

\* C27: for every deterministic retrieval operation and every input the number
\* of %s placeholders of a statement equals the number of parameters bound
\* when it is executed.
C27_PlaceholdersEqualParams ==
    (callpc \in {"returned", "raised"}
       /\ call_in.op \in {"search_by_name", "search_by_category", "search_by_tags",
                          "search_popular", "RetrievalService.search"}) =>
        \A i \in 1..Len(ClaimHandedToDriver) :
            CountPlaceholders(ClaimHandedToDriver[i].sql) =
                Len(ClaimHandedToDriver[i].params)

\* C28: when the agent executes search_by_category with arguments
\* {category, top_n}, the category search runs without a country filter and
\* with limit top_n (the default 50 when the model gives none), and the trace
\* holds its envelope: at most top_n candidates, all of that category.
C28_CategoryToolSearches ==
    \A i \in 1..Len(issued) :
        issued[i].tool = "search_by_category" =>
            /\ i <= Len(tool_calls_log)
            /\ tool_calls_log[i].tool = "search_by_category"
            /\ "candidates" \in DOMAIN tool_calls_log[i].result
            /\ Len(tool_calls_log[i].result.candidates)
                   <= Get(issued[i].arguments, "top_n", DefaultTopN)
            /\ \A k \in 1..Len(tool_calls_log[i].result.candidates) :
                   tool_calls_log[i].result.candidates[k].category_norm
                       = issued[i].arguments.category
            /\ \E s \in 1..Len(dbLog) :
                   /\ dbLog[s].by = "agent"
                   /\ ~Contains(dbLog[s].sql, "country")
                   /\ dbLog[s].params =
                          <<issued[i].arguments.category,
                            issued[i].arguments.category,
                            Str(Get(issued[i].arguments, "top_n", DefaultTopN))>>

\* C29: no viewpoint_id occurs twice in the candidates of a /query response,
\* whatever the agent's trace holds (several searches finding one viewpoint,
\* a country join over several assets, several rank calls) and on the
\* mediator's fallback path.
C29_NoDuplicateCandidates ==
    (qpc = "done" /\ response.status = 200) =>
        \A i, j \in 1..Len(response.candidates) :
            response.candidates[i].viewpoint_id = response.candidates[j].viewpoint_id
                => i = j

\* C30: the tag_schema_version of every extractor output in the trace, and of
\* every /query response, is the active TAG_SCHEMA_VERSION, the version of
\* the schema query_tags were validated against, whatever the LLM's reply
\* holds and whether the agent or the handler extracted the intent.
C30_SchemaVersionIsActive ==
    /\ \A i \in 1..Len(tool_calls_log) :
          (/\ tool_calls_log[i].tool = "extract_query_intent"
           /\ "tag_schema_version" \in DOMAIN tool_calls_log[i].result)
              => tool_calls_log[i].result.tag_schema_version = TAG_SCHEMA_VERSION
    /\ (qpc = "done" /\ response.status = 200) =>
          response.tag_schema_version = TAG_SCHEMA_VERSION

====
